---- MODULE Spec2Model ----
(***************************************************************************)
(* Assessment persistence API of the damage assessor: the request router   *)
(* (worker/handler) over the two SqlStore backends, the embedded SQLite    *)
(* store (worker/adapters/sqliteSqlStore.ts) and the Cloudflare D1 store   *)
(* (createCloudflareSqlStore).  Both backends are driven by the same       *)
(* requests with the same clock readings.  The SQLite store runs on        *)
(* better-sqlite3, whose calls are synchronous: one upsert is one          *)
(* uninterrupted run of the event loop.  The D1 store awaits its SELECT    *)
(* and its INSERT, so other requests run between them.                     *)
(***************************************************************************)
EXTENDS Integers, Sequences, FiniteSets, TLC

\* ------------------------------------------------------------------ bounds
MaxReqs == 2          \* upsert requests served in one behaviour
MaxUploads == 1       \* files stored through POST /api/upload in one behaviour

\* ------------------------------------------------------------- value sets
Reqs == 0..MaxReqs      \* slot 0 serves the requests that write nothing
Backends == {"sqlite", "d1"}

Undefined == "undefined"      \* a field absent from a JavaScript object
Null == "NULL"                \* SQL NULL

Ids == {"R1", "R2"}
PutIds == {"R1"}              \* the :id of the PUT requests
Approvals == {"approved"}     \* a SerializedApproval object
MetricsValues == {"m"}        \* an AssessmentMetrics object

\* JavaScript truthiness of the values above: the empty string, undefined
\* and null are falsy, every other string and every object is truthy.
Truthy(v) == v \notin {"", Undefined, Null}

\* JSON.stringify / JSON.parse of an approval or metrics object.
JSONstringify(v) == "{" \o v \o "}"
JSONparse(s) == SubSeq(s, 2, Len(s) - 1)

\* AssessmentUpsert bodies a client sends: with a damageId (carrying an
\* approval or metrics), and without one.
ValidBodies ==
    {body \in [id : {Undefined, "R2"}, damageId : Ids,
               approval : Approvals \cup {Undefined},
               metrics : MetricsValues \cup {Undefined}] :
        /\ (body.approval = Undefined) # (body.metrics = Undefined)
        /\ body.id # body.damageId}
InvalidBodies ==
    [id : {Undefined}, damageId : {Undefined},
     approval : Approvals, metrics : {Undefined}]
Bodies == ValidBodies \cup InvalidBodies
NoBody == [id |-> Undefined, damageId |-> Undefined,
           approval |-> Undefined, metrics |-> Undefined]

NoRequest == [method |-> "", route |-> "", param |-> "", body |-> NoBody]
NoResponse == [status |-> 0, error |-> "", records |-> <<>>]

VARIABLES
    schema,      \* schema[b]: the assessments table of backend b exists
    table,       \* table[b]: the rows of the assessments table of backend b
    clock,       \* the latest reading of the wall clock
    pc,          \* pc[r]: where request r stands
    request,     \* request[r]: method, route, path parameter and JSON body
    upsertArg,   \* upsertArg[r]: the record handed to upsertAssessment
    now,         \* now[r]: the clock reading of r's upsertAssessment call
    existing,    \* existing[r]: created_at of the row r's D1 SELECT returned
    response,    \* response[r][b]: the response backend b produced for r
    firstCommit, \* firstCommit[b][id]: created_at bound by the upsert that inserted the row
    lastCommit,  \* lastCommit[b][id]: arguments of the upsert that wrote the row last
    objects,     \* objects[b]: the keys held by the object store of backend b
    files,           \* the image files of the selected folder (the FileList)
    detailsFile,     \* the details file (.csv, .xlsx, .xls) among them
    mapping,         \* the column mapping chosen in the uploader
    ipc,             \* where handleFilesSelected stands
    isProcessing,    \* the viewer's isProcessing state
    detailsResult,   \* what parseDamageDetailsFile returned
    buckets,         \* the Map processFolderStructure fills, in insertion order
    photoSets,       \* state.photoSets of the viewer
    detailsSummary,  \* the viewer's detailsSummary state
    toasts,          \* the toasts shown, oldest first
    resumeCandidate, \* the saved approvals and metrics offered for resuming
    approvals,       \* state.approvals of the viewer: report id -> approval
    metricsById,     \* the viewer's metricsById state: report id -> metrics
    outbox,          \* the PUT requests the viewer has issued, oldest first
    pendingFiles,    \* the uploader's pendingFiles state: the selection to process
    isPreflighting,  \* the uploader's isPreflighting state
    resumePromptOpen \* the viewer's resumePromptOpen state

\* The variables of the viewer's ingestion.
ingestVars == <<files, detailsFile, mapping, ipc, isProcessing, detailsResult,
                buckets, photoSets, detailsSummary, toasts, resumeCandidate>>

\* The variables of the viewer's assessment session.
sessionVars == <<approvals, metricsById, outbox>>

\* The uploader's selection and the resume prompt.
uploaderVars == <<pendingFiles, isPreflighting, resumePromptOpen>>

\* The variables outside the assessment store and its router.
restVars == <<objects, ingestVars, sessionVars, uploaderVars>>

\* The variables of the server.
storeVars == <<schema, table, clock, pc, request, upsertArg, now, existing, response,
               firstCommit, lastCommit, objects>>

vars == <<schema, table, clock, pc, request, upsertArg, now, existing, response,
          firstCommit, lastCommit, restVars>>

\* ------------------------------------------------------- the SqlStore code
\* toRecord: a row of the table as an AssessmentRecord.
toRecord(row) ==
    [id |-> row.id,
     damageId |-> row.damage_id,
     approval |-> IF Truthy(row.approval_json) THEN JSONparse(row.approval_json)
                  ELSE Undefined,
     metrics |-> IF Truthy(row.metrics_json) THEN JSONparse(row.metrics_json)
                 ELSE Undefined,
     createdAt |-> row.created_at,
     updatedAt |-> row.updated_at]

\* const id = record.id || record.damageId
ResolveId(record) == IF Truthy(record.id) THEN record.id ELSE record.damageId

\* SELECT id, created_at FROM assessments WHERE id = ? : the created_at of
\* the row found, as a set that is empty when there is no row.
SelectCreatedAt(rows, id) == {row.created_at : row \in {q \in rows : q.id = id}}

\* Variant without the fallback: const createdAt = existing?.created_at
CreatedAtOf_NoFallback(found, t) == IF found # {} THEN CHOOSE c \in found : TRUE ELSE 0

\* const createdAt = existing?.created_at || now
CreatedAtOf(found, t) == IF found # {} THEN CHOOSE c \in found : TRUE ELSE t

\* record.approval ? JSON.stringify(record.approval) : null
JsonColumn(v) == IF Truthy(v) THEN JSONstringify(v) ELSE Null

\* The values bound to the INSERT statement.
BoundRow(id, record, createdAt, t) ==
    [id |-> id,
     damage_id |-> record.damageId,
     approval_json |-> JsonColumn(record.approval),
     metrics_json |-> JsonColumn(record.metrics),
     created_at |-> createdAt,
     updated_at |-> t]

\* Variants of the statement with a slip in the SET list: created_at is
\* overwritten too; a NULL column keeps the stored value.
ConflictUpdate_SetsCreatedAt(old, excluded) ==
    [old EXCEPT !.damage_id = excluded.damage_id,
                !.approval_json = excluded.approval_json,
                !.metrics_json = excluded.metrics_json,
                !.created_at = excluded.created_at,
                !.updated_at = excluded.updated_at]

ConflictUpdate_Coalesce(old, excluded) ==
    [old EXCEPT !.damage_id = excluded.damage_id,
                !.approval_json = IF excluded.approval_json = Null
                                  THEN old.approval_json ELSE excluded.approval_json,
                !.metrics_json = IF excluded.metrics_json = Null
                                 THEN old.metrics_json ELSE excluded.metrics_json,
                !.updated_at = excluded.updated_at]

\* ON CONFLICT(id) DO UPDATE SET ... : the row that replaces `old`.
ConflictUpdate(old, excluded) ==
    [old EXCEPT !.damage_id = excluded.damage_id,
                !.approval_json = excluded.approval_json,
                !.metrics_json = excluded.metrics_json,
                !.updated_at = excluded.updated_at]

\* Variant of the statement: ON CONFLICT(id) DO NOTHING.
InsertOnConflict_DoNothing(rows, excluded) ==
    IF \E old \in rows : old.id = excluded.id THEN rows ELSE rows \cup {excluded}

\* INSERT INTO assessments ... ON CONFLICT(id) DO UPDATE SET ... : one
\* statement, executed by the database engine in one step.
InsertOnConflict(rows, excluded) ==
    IF \E old \in rows : old.id = excluded.id
    THEN {IF old.id = excluded.id THEN ConflictUpdate(old, excluded) ELSE old :
          old \in rows}
    ELSE rows \cup {excluded}

\* The object upsertAssessment returns, built from its local variables.
UpsertReturn(id, record, createdAt, t) ==
    [id |-> id,
     damageId |-> record.damageId,
     approval |-> record.approval,
     metrics |-> record.metrics,
     createdAt |-> createdAt,
     updatedAt |-> t]

\* SELECT * FROM assessments WHERE id = ? ; row ? toRecord(row) : null
getAssessment(rows, id) == {toRecord(row) : row \in {q \in rows : q.id = id}}

\* SELECT * FROM assessments ORDER BY updated_at DESC.  Rows with equal
\* updated_at come in an order the engine fixes for a given table content.
\* Variant of the query with ORDER BY updated_at ASC
RECURSIVE OrderByUpdatedAt_Asc(_)
OrderByUpdatedAt_Asc(rows) ==
    IF rows = {} THEN <<>>
    ELSE LET top == CHOOSE r \in rows : \A q \in rows : q.updated_at >= r.updated_at
         IN <<top>> \o OrderByUpdatedAt_Asc(rows \ {top})

RECURSIVE OrderByUpdatedAtDesc(_)
OrderByUpdatedAtDesc(rows) ==
    IF rows = {} THEN <<>>
    ELSE LET top == CHOOSE r \in rows : \A q \in rows : q.updated_at <= r.updated_at
         IN <<top>> \o OrderByUpdatedAtDesc(rows \ {top})

listAssessments(rows) ==
    LET sorted == OrderByUpdatedAtDesc(rows)
    IN [i \in 1..Len(sorted) |-> toRecord(sorted[i])]

\* --------------------------------------------------------- the router code
\* json(data, status) and text(data, status)
json(records, status) == [status |-> status, error |-> "", records |-> records]
jsonError(message, status) == [status |-> status, error |-> message, records |-> <<>>]
text(message, status) == [status |-> status, error |-> message, records |-> <<>>]

\* Variant with the spread last: { id, ...payload }, the body's own id wins.
WithId_BodyWins(payload, id) ==
    IF payload.id # Undefined THEN payload ELSE [payload EXCEPT !.id = id]

\* { ...payload, id } : the body with its id replaced by the path parameter.
WithId(payload, id) == [payload EXCEPT !.id = id]

\* Variant that tests the body only: if (!payload)
MissingDamageId_TestsBody(payload) == payload \notin Bodies

\* if (!payload?.damageId)
MissingDamageId(payload) == ~Truthy(payload.damageId)

\* The arguments of a committed upsert, kept to compare the table against.
CommitOf(record, t) ==
    [damageId |-> record.damageId, approval |-> record.approval,
     metrics |-> record.metrics, now |-> t]

\* upsertAssessment of the SQLite store: better-sqlite3 runs the SELECT and
\* the INSERT synchronously, so the whole call is one step.
upsertAssessment(rows, record, t) ==
    LET id == ResolveId(record)
        found == SelectCreatedAt(rows, id)
        createdAt == CreatedAtOf(found, t)
    IN [rows |-> InsertOnConflict(rows, BoundRow(id, record, createdAt, t)),
        bound |-> BoundRow(id, record, createdAt, t),
        returned |-> UpsertReturn(id, record, createdAt, t)]

\* History of the statements run: the arguments of the upsert whose INSERT
\* statement ran last for an id of backend b, and the created_at bound by the
\* statement that found no row for the id.
NoteCommit(commits, b, record, t) ==
    [commits EXCEPT ![b][ResolveId(record)] = {CommitOf(record, t)}]

NoteFirstCommit(commits, b, rows, excluded) ==
    IF \E old \in rows : old.id = excluded.id
    THEN commits
    ELSE [commits EXCEPT ![b][excluded.id] = {excluded.created_at}]

\* ------------------------------------------------------------------- state
\* The viewer before any folder has been selected.
NoSummary == [sourceFileName |-> Null, matchedCount |-> 0, missingInCsv |-> {},
              unmatchedInCsv |-> {}]
NoCandidate == [approvals |-> <<>>, metricsById |-> <<>>, overlapCount |-> 0]
NoResult == [detailsById |-> <<>>, sourceFileName |-> Undefined, error |-> Undefined]
NoFile == [kind |-> "none", name |-> "", headers |-> <<>>, rows |-> <<>>]
\* pendingFiles = null; a selection that is kept always holds a file
NoSelection == [files |-> <<>>, detailsFile |-> NoFile, mapping |-> <<>>]

ViewerInit ==
    /\ ipc = "idle"
    /\ isProcessing = FALSE
    /\ detailsResult = NoResult
    /\ buckets = <<>>
    /\ photoSets = <<>>
    /\ detailsSummary = NoSummary
    /\ toasts = <<>>
    /\ resumeCandidate = NoCandidate
    /\ pendingFiles = NoSelection
    /\ isPreflighting = FALSE
    /\ resumePromptOpen = FALSE

NothingSelected ==
    /\ files = <<>>
    /\ detailsFile = NoFile
    /\ mapping = <<>>

StoreInit ==
    /\ schema = [b \in Backends |-> FALSE]
    /\ table = [b \in Backends |-> {}]
    /\ clock = 0
    /\ pc = [r \in Reqs |-> "idle"]
    /\ request = [r \in Reqs |-> NoRequest]
    /\ upsertArg = [r \in Reqs |-> NoBody]
    /\ now = [r \in Reqs |-> 0]
    /\ existing = [r \in Reqs |-> {}]
    /\ response = [r \in Reqs |-> [b \in Backends |-> NoResponse]]
    /\ firstCommit = [b \in Backends |-> [id \in Ids |-> {}]]
    /\ lastCommit = [b \in Backends |-> [id \in Ids |-> {}]]
    /\ objects = [b \in Backends |-> {}]

NoAssessments ==
    /\ approvals = <<>>
    /\ metricsById = <<>>
    /\ outbox = <<>>

Init == StoreInit /\ NothingSelected /\ ViewerInit /\ NoAssessments

\* A response is looked at and closed before anything else happens.
NoneDone == \A q \in Reqs : pc[q] # "done"

\* Upsert requests are taken from the slots 1..MaxReqs in order.  A request
\* that writes nothing (slot 0) is served once the SELECTs already sent have
\* run: a SELECT changes no table, so its answer is the same before and after.
Arrives(r) ==
    /\ pc[r] = "idle"
    /\ NoneDone
    /\ \A q \in 1..(r - 1) : pc[q] # "idle"
    /\ r = 0 => \A q \in Reqs : pc[q] # "select"

\* await sqlStore.init() : CREATE TABLE IF NOT EXISTS, on every /api request.
init == schema' = [b \in Backends |-> TRUE]

Receive(r, method, route, param, body) ==
    /\ Arrives(r)
    /\ init
    /\ request' = [request EXCEPT ![r] =
                     [method |-> method, route |-> route, param |-> param, body |-> body]]

\* Both backends answer at once (a route without an upsert).
Answer(r, sqliteResponse, d1Response) ==
    /\ response' = [response EXCEPT ![r] = [sqlite |-> sqliteResponse, d1 |-> d1Response]]
    /\ pc' = [pc EXCEPT ![r] = "done"]
    /\ UNCHANGED <<table, clock, upsertArg, now, existing, firstCommit, lastCommit,
                   restVars>>

\* new Date().toISOString(): the reading is the one before or a later one
\* (ISO-8601 strings of one time zone order as the instants do; only the
\* order of the readings matters, so a later reading is the next number).
ClockReadings == {t \in {clock, clock + 1} : t >= 1}

\* const record = await sqlStore.upsertAssessment(record) : the SQLite store
\* runs the call to its end; the D1 store reads the clock and sends its SELECT.
StartUpsert(r, record, status) ==
    \E t \in ClockReadings :
        LET done == upsertAssessment(table.sqlite, record, t) IN
        /\ clock' = t
        /\ now' = [now EXCEPT ![r] = t]
        /\ upsertArg' = [upsertArg EXCEPT ![r] = record]
        /\ table' = [table EXCEPT !.sqlite = done.rows]
        /\ response' = [response EXCEPT ![r].sqlite = json(<<done.returned>>, status)]
        /\ firstCommit' = NoteFirstCommit(firstCommit, "sqlite", table.sqlite, done.bound)
        /\ lastCommit' = NoteCommit(lastCommit, "sqlite", record, t)
        /\ pc' = [pc EXCEPT ![r] = "select"]
        /\ UNCHANGED <<existing, restVars>>

\* GET /api/assessments
HandleList(r) ==
    /\ r = 0
    /\ Receive(r, "GET", "/assessments", "", NoBody)
    /\ Answer(r, json(listAssessments(table.sqlite), 200),
                 json(listAssessments(table.d1), 200))

\* Variant without the not-found test: return json(record)
GetResponse_NoNullTest(found) ==
    IF found = {} THEN json(<<>>, 200)
    ELSE json(<<CHOOSE record \in found : TRUE>>, 200)

\* GET /api/assessments/:id
GetResponse(found) ==
    IF found = {} THEN jsonError("Not found", 404)
    ELSE json(<<CHOOSE record \in found : TRUE>>, 200)

HandleGet(r, id) ==
    /\ r = 0
    /\ Receive(r, "GET", "/assessments/:id", id, NoBody)
    /\ Answer(r, GetResponse(getAssessment(table.sqlite, id)),
                 GetResponse(getAssessment(table.d1, id)))

\* POST /api/assessments
HandlePost(r, body) ==
    /\ Receive(r, "POST", "/assessments", "", body)
    /\ (r = 0) = MissingDamageId(body)
    /\ IF MissingDamageId(body)
       THEN Answer(r, jsonError("damageId is required", 400),
                      jsonError("damageId is required", 400))
       ELSE StartUpsert(r, body, 201)

\* PUT /api/assessments/:id
HandlePut(r, id, body) ==
    /\ Receive(r, "PUT", "/assessments/:id", id, body)
    /\ (r = 0) = MissingDamageId(body)
    /\ IF MissingDamageId(body)
       THEN Answer(r, jsonError("damageId is required", 400),
                      jsonError("damageId is required", 400))
       ELSE StartUpsert(r, WithId(body, id), 200)

\* Any other method and route under /api: return text('Not Found', 404)
HandleNotFound(r, method, route) ==
    /\ r = 0
    /\ Receive(r, method, route, "", NoBody)
    /\ Answer(r, text("Not Found", 404), text("Not Found", 404))

\* The D1 store: const existing = await db.prepare('SELECT ...').bind(id).first()
D1Select(r) ==
    /\ pc[r] = "select"
    /\ NoneDone
    /\ existing' = [existing EXCEPT ![r] = SelectCreatedAt(table.d1, ResolveId(upsertArg[r]))]
    /\ pc' = [pc EXCEPT ![r] = "insert"]
    /\ request' = [request EXCEPT ![r] = [NoRequest EXCEPT !.method = request[r].method]]
    /\ UNCHANGED <<schema, table, clock, upsertArg, now, response,
                   firstCommit, lastCommit, restVars>>

\* The D1 store: await db.prepare('INSERT ... ON CONFLICT ...').bind(...).run()
\* and the return of the record; the router answers with it.
StatusOf(method) == IF method = "POST" THEN 201 ELSE 200

D1Insert(r) ==
    LET record == upsertArg[r]
        id == ResolveId(record)
        createdAt == CreatedAtOf(existing[r], now[r])
    IN /\ pc[r] = "insert"
       /\ NoneDone
       /\ table' = [table EXCEPT !.d1 = InsertOnConflict(table.d1,
                                           BoundRow(id, record, createdAt, now[r]))]
       /\ response' = [response EXCEPT ![r].d1 =
                         json(<<UpsertReturn(id, record, createdAt, now[r])>>,
                              StatusOf(request[r].method))]
       /\ firstCommit' = NoteFirstCommit(firstCommit, "d1", table.d1,
                                          BoundRow(id, record, createdAt, now[r]))
       /\ lastCommit' = NoteCommit(lastCommit, "d1", record, now[r])
       /\ pc' = [pc EXCEPT ![r] = "done"]
       /\ UNCHANGED <<schema, clock, request, upsertArg, now, existing, restVars>>

\* The response has been sent; nothing of the request is kept.  A slot that
\* served an upsert is used up, slot 0 is free again.
Close(r) ==
    /\ pc[r] = "done"
    /\ pc' = [pc EXCEPT ![r] = IF r = 0 THEN "idle" ELSE "closed"]
    /\ request' = [request EXCEPT ![r] = NoRequest]
    /\ upsertArg' = [upsertArg EXCEPT ![r] = NoBody]
    /\ now' = [now EXCEPT ![r] = 0]
    /\ existing' = [existing EXCEPT ![r] = {}]
    /\ response' = [response EXCEPT ![r] = [b \in Backends |-> NoResponse]]
    /\ UNCHANGED <<schema, table, clock, firstCommit, lastCommit, restVars>>

OtherRoutes == {<<"PUT", "/assessments">>}

Next ==
    \/ \E r \in Reqs : HandleList(r)
    \/ \E r \in Reqs, id \in Ids : HandleGet(r, id)
    \/ \E r \in Reqs, body \in Bodies : HandlePost(r, body)
    \/ \E r \in Reqs, id \in PutIds, body \in Bodies : HandlePut(r, id, body)
    \/ \E r \in Reqs, mr \in OtherRoutes : HandleNotFound(r, mr[1], mr[2])
    \/ \E r \in Reqs : D1Select(r)
    \/ \E r \in Reqs : D1Insert(r)
    \/ \E r \in Reqs : Close(r)

Spec == Init /\ [][Next]_vars

\* ------------------------------------ uploads, bad bodies, failing backends
\* handleRequest has no try/catch: a rejected await rejects the promise it
\* returns.  Thrown(e) stands for that rejection (no Response was built).
Thrown(e) == [status |-> 0, error |-> e, records |-> <<>>]

Files == {Undefined, "photo.jpg"}     \* formData.get('file')
Uuids == 1..MaxUploads                \* crypto.randomUUID()

\* POST /api/upload
HandleUpload(r, file) ==
    /\ r = 0
    /\ Receive(r, "POST", "/upload", "", NoBody)
    /\ pc' = [pc EXCEPT ![r] = "done"]
    /\ IF file = Undefined
       THEN /\ response' = [response EXCEPT ![r] =
                              [b \in Backends |-> jsonError("Missing file", 400)]]
            /\ UNCHANGED objects
       ELSE \E uuid \in Uuids :
              LET key == <<uuid, file>> IN
              /\ \A b \in Backends : key \notin objects[b]
              /\ \A u \in 1..(uuid - 1) : <<u, file>> \in objects.sqlite
              /\ objects' = [b \in Backends |-> objects[b] \cup {key}]
              /\ response' = [response EXCEPT ![r] =
                                [b \in Backends |-> json(<<[key |-> key]>>, 201)]]
    /\ UNCHANGED <<table, clock, upsertArg, now, existing, firstCommit, lastCommit,
                   ingestVars, sessionVars, uploaderVars>>

\* await objectStore.putObject(key, buffer, file.type) rejects
PutObjectFails(r) ==
    /\ r = 0
    /\ Receive(r, "POST", "/upload", "", NoBody)
    /\ Answer(r, Thrown("StorageError"), Thrown("StorageError"))

\* await sqlStore.init() rejects, whatever the route under /api
ApiRoutes == {<<"GET", "/assessments">>, <<"POST", "/upload">>}

InitFails(r, method, route) ==
    /\ r = 0
    /\ Arrives(r)
    /\ request' = [request EXCEPT ![r] = [NoRequest EXCEPT !.method = method,
                                                           !.route = route]]
    /\ Answer(r, Thrown("StorageError"), Thrown("StorageError"))
    /\ UNCHANGED schema

\* The routes that call listAssessments, getAssessment or upsertAssessment
StoreRoutes ==
    {<<"GET", "/assessments", "">>, <<"GET", "/assessments/:id", "R1">>,
     <<"POST", "/assessments", "">>, <<"PUT", "/assessments/:id", "R1">>}

\* await sqlStore.listAssessments() / getAssessment(id) / upsertAssessment(..)
\* rejects: the statement has not run
StoreFails(r, method, route, param, body) ==
    /\ r = 0
    /\ (method = "GET") = (body = NoBody)
    /\ Receive(r, method, route, param, body)
    /\ Answer(r, Thrown("StorageError"), Thrown("StorageError"))

\* await request.json() rejects: the body of a POST or PUT is not JSON
BodyUnparsable(r, method, route, param) ==
    /\ r = 0
    /\ method \in {"POST", "PUT"}
    /\ Receive(r, method, route, param, NoBody)
    /\ Answer(r, Thrown("SyntaxError"), Thrown("SyntaxError"))

NextApi ==
    \/ Next
    \/ \E r \in Reqs, file \in Files : HandleUpload(r, file)
    \/ \E r \in Reqs : PutObjectFails(r)
    \/ \E r \in Reqs, mr \in ApiRoutes : InitFails(r, mr[1], mr[2])
    \/ \E r \in Reqs, mr \in StoreRoutes, body \in ValidBodies \cup {NoBody} :
          StoreFails(r, mr[1], mr[2], mr[3], body)
    \/ \E r \in Reqs, mr \in StoreRoutes : BodyUnparsable(r, mr[1], mr[2], mr[3])

SpecApi == Init /\ [][NextApi]_vars

\* ====================================================== the ingestion side
\* ------------------------------------------------------ JavaScript strings
UpperCase == "ABCDEFGHIJKLMNOPQRSTUVWXYZ"
LowerCase == "abcdefghijklmnopqrstuvwxyz"
CharAt(s, i) == SubSeq(s, i, i)
DropFirst(s) == SubSeq(s, 2, Len(s))
DropLast(s) == SubSeq(s, 1, Len(s) - 1)

LowerOf ==
    [c \in {CharAt(UpperCase, i) : i \in 1..Len(UpperCase)} |->
       CharAt(LowerCase, CHOOSE i \in 1..Len(UpperCase) : CharAt(UpperCase, i) = c)]

toLowerCaseChar(c) == IF c \in DOMAIN LowerOf THEN LowerOf[c] ELSE c

RECURSIVE toLowerCase(_)
toLowerCase(s) ==
    IF Len(s) = 0 THEN "" ELSE toLowerCaseChar(CharAt(s, 1)) \o toLowerCase(DropFirst(s))

RECURSIVE trimStart(_)
trimStart(s) ==
    IF Len(s) > 0 /\ CharAt(s, 1) = " " THEN trimStart(DropFirst(s)) ELSE s

RECURSIVE trimEnd(_)
trimEnd(s) ==
    IF Len(s) > 0 /\ CharAt(s, Len(s)) = " " THEN trimEnd(DropLast(s)) ELSE s

trim(s) == trimEnd(trimStart(s))

includes(s, sub) ==
    \E i \in 1..(Len(s) - Len(sub) + 1) : SubSeq(s, i, i + Len(sub) - 1) = sub
startsWith(s, sub) == Len(sub) <= Len(s) /\ SubSeq(s, 1, Len(sub)) = sub
endsWith(s, sub) ==
    Len(sub) <= Len(s) /\ SubSeq(s, Len(s) - Len(sub) + 1, Len(s)) = sub

\* a.localeCompare(b) < 0 : the letters and digits of the report ids
\* compared place by place without regard to case, a shorter text before its
\* extensions, and lower case before upper case when nothing else differs.
Collation == " _-0123456789abcdefghijklmnopqrstuvwxyz"
RankOf ==
    [c \in {CharAt(Collation, i) : i \in 1..Len(Collation)} |->
       CHOOSE i \in 1..Len(Collation) : CharAt(Collation, i) = c]

CollationRank(c) ==
    IF toLowerCaseChar(c) \in DOMAIN RankOf THEN RankOf[toLowerCaseChar(c)] ELSE 0

RECURSIVE PrimaryCompare(_, _)
PrimaryCompare(a, b) ==
    IF Len(a) = 0 /\ Len(b) = 0 THEN 0
    ELSE IF Len(a) = 0 THEN -1
    ELSE IF Len(b) = 0 THEN 1
    ELSE IF CollationRank(CharAt(a, 1)) < CollationRank(CharAt(b, 1)) THEN -1
    ELSE IF CollationRank(CharAt(a, 1)) > CollationRank(CharAt(b, 1)) THEN 1
    ELSE PrimaryCompare(DropFirst(a), DropFirst(b))

RECURSIVE CaseCompare(_, _)
CaseCompare(a, b) ==
    IF Len(a) = 0 \/ Len(b) = 0 THEN 0
    ELSE IF CharAt(a, 1) = CharAt(b, 1) THEN CaseCompare(DropFirst(a), DropFirst(b))
    ELSE IF toLowerCaseChar(CharAt(a, 1)) = CharAt(a, 1) THEN -1 ELSE 1

localeCompare(a, b) ==
    IF PrimaryCompare(a, b) # 0 THEN PrimaryCompare(a, b) ELSE CaseCompare(a, b)

\* ------------------------------------------------- sequences, as JS arrays
slice(seq, from, to) == SubSeq(seq, from + 1, IF to < Len(seq) THEN to ELSE Len(seq))

\* ------------------------------------------- src/utils/photo-processing.ts
\* calculateDistance(lat1, lon1, lat2, lon2): the Haversine distance.  The
\* photos of the model lie on one meridian, where it is the difference of
\* the latitudes times the length of a degree.
Abs(n) == IF n < 0 THEN -n ELSE n
calculateDistance(lat1, lon1, lat2, lon2) == Abs(lat2 - lat1) + Abs(lon2 - lon1)

\* A position is the pair <<latitude, longitude>>; <<>> is no position.
NoLocation == <<>>
latitude(location) == location[1]
longitude(location) == location[2]

\* extractPhotoMetadata(file): the EXIF position when latitude and longitude
\* are both truthy; a file whose EXIF cannot be read has none.
extractPhotoMetadata(file, index) ==
    [file |-> index,
     name |-> file.name,
     location |-> IF file.exif # NoLocation /\ latitude(file.exif) # 0
                     /\ longitude(file.exif) # 0
                  THEN file.exif ELSE NoLocation]

IsStageKeyword(folder) ==
    \/ includes(folder, "precondition")
    \/ includes(folder, "pre-condition")
    \/ includes(folder, "pre_condition")
    \/ includes(folder, "before")
    \/ includes(folder, "damage")
    \/ includes(folder, "completion")
    \/ includes(folder, "after")
    \/ startsWith(folder, "01-")
    \/ startsWith(folder, "02-")
    \/ startsWith(folder, "03-")

\* for (let i = 0; i < pathParts.length - 1; i++) ... break : the index
\* (from 0) of the first folder with a keyword, -1 when there is none
RECURSIVE FindPhotoTypeIndex(_, _)
FindPhotoTypeIndex(pathParts, i) ==
    IF i >= Len(pathParts) - 1 THEN -1
    ELSE IF IsStageKeyword(trim(toLowerCase(pathParts[i + 1]))) THEN i
    ELSE FindPhotoTypeIndex(pathParts, i + 1)

photoTypeIndex(pathParts) ==
    IF FindPhotoTypeIndex(pathParts, 0) >= 0 THEN FindPhotoTypeIndex(pathParts, 0)
    ELSE IF Len(pathParts) >= 2 THEN Len(pathParts) - 2
    ELSE -1

photoTypeFolder(pathParts) ==
    IF photoTypeIndex(pathParts) >= 0
    THEN trim(toLowerCase(pathParts[photoTypeIndex(pathParts) + 1]))
    ELSE Null

\* Variant that always takes the second segment
damageIdOf_SecondSegment(pathParts) == pathParts[2]

damageIdOf(pathParts) ==
    IF photoTypeIndex(pathParts) > 0 THEN pathParts[photoTypeIndex(pathParts)]
    ELSE IF Len(pathParts) >= 2 THEN pathParts[2]
    ELSE pathParts[1]

\* Variant that tests the precondition names before the damage names
bucketOf_PreconditionFirst(folder) ==
    IF ~Truthy(folder) THEN "damage"
    ELSE IF \/ includes(folder, "precondition") \/ includes(folder, "pre-condition")
            \/ includes(folder, "pre_condition") \/ includes(folder, "before")
            \/ startsWith(folder, "01-") \/ includes(folder, "01-precondition")
         THEN "precondition"
    ELSE IF includes(folder, "damage") \/ startsWith(folder, "02-")
            \/ includes(folder, "02-damage") THEN "damage"
    ELSE IF \/ includes(folder, "completion") \/ includes(folder, "after")
            \/ startsWith(folder, "03-") \/ includes(folder, "03-completion")
         THEN "completion"
    ELSE "damage"

\* The bucket the photo is pushed to
bucketOf(folder) ==
    IF ~Truthy(folder) THEN "damage"
    ELSE IF includes(folder, "damage") \/ startsWith(folder, "02-")
            \/ includes(folder, "02-damage") THEN "damage"
    ELSE IF \/ includes(folder, "precondition") \/ includes(folder, "pre-condition")
            \/ includes(folder, "pre_condition") \/ includes(folder, "before")
            \/ startsWith(folder, "01-") \/ includes(folder, "01-precondition")
         THEN "precondition"
    ELSE IF \/ includes(folder, "completion") \/ includes(folder, "after")
            \/ startsWith(folder, "03-") \/ includes(folder, "03-completion")
         THEN "completion"
    ELSE "damage"

\* The files the loop skips: not an image, or a path of fewer than 3 parts
Skipped(file) ==
    \/ ~startsWith(file.type, "image/")
    \/ Len(file.webkitRelativePath) < 3

EmptySet(damageId) ==
    [damageId |-> damageId, damage |-> <<>>, precondition |-> <<>>, completion |-> <<>>]

\* photoSets.has / set / get and the push, on a Map kept in insertion order
PushPhoto(sets, damageId, bucket, photo) ==
    LET known == \E i \in 1..Len(sets) : sets[i].damageId = damageId
        all == IF known THEN sets ELSE Append(sets, EmptySet(damageId))
    IN [i \in 1..Len(all) |->
          IF all[i].damageId = damageId
          THEN [all[i] EXCEPT ![bucket] = Append(@, photo)]
          ELSE all[i]]

\* The first loop of processFolderStructure, over files[1..n]
RECURSIVE ClassifyFiles(_, _)
ClassifyFiles(fileList, n) ==
    IF n = 0 THEN <<>>
    ELSE LET sets == ClassifyFiles(fileList, n - 1)
             file == fileList[n]
         IN IF Skipped(file) THEN sets
            ELSE PushPhoto(sets, damageIdOf(file.webkitRelativePath),
                           bucketOf(photoTypeFolder(file.webkitRelativePath)),
                           extractPhotoMetadata(file, n))

\* Array.prototype.sort is stable: an element goes behind those that do not
\* compare greater.  The comparator of the photos is distanceA - distanceB.
DistanceTo(ref, photo) ==
    calculateDistance(latitude(ref), longitude(ref),
                      latitude(photo.location), longitude(photo.location))

RECURSIVE InsertByDistance(_, _, _)
InsertByDistance(sorted, photo, ref) ==
    IF sorted = <<>> THEN <<photo>>
    ELSE IF DistanceTo(ref, Head(sorted)) - DistanceTo(ref, photo) <= 0
         THEN <<Head(sorted)>> \o InsertByDistance(Tail(sorted), photo, ref)
         ELSE <<photo>> \o sorted

RECURSIVE sortByDistance(_, _)
sortByDistance(photos, ref) ==
    IF photos = <<>> THEN <<>>
    ELSE InsertByDistance(sortByDistance(DropLast(photos), ref), photos[Len(photos)], ref)

HasLocation(photo) == photo.location # NoLocation
HasNoLocation(photo) == photo.location = NoLocation

\* photos.damage.find(photo => photo.location)?.location
referenceLocationOf(damage) ==
    IF SelectSeq(damage, HasLocation) = <<>> THEN NoLocation
    ELSE Head(SelectSeq(damage, HasLocation)).location

\* Variant that cuts before it sorts
ClosestPhotos_CutFirst(photos, ref) ==
    sortByDistance(slice(SelectSeq(photos, HasLocation), 0, 10), ref)
        \o SelectSeq(photos, HasNoLocation)

\* .filter(photo => photo.location).sort(by distance).slice(0, 10)
\*    .concat(photos.filter(photo => !photo.location))
ClosestPhotos(photos, ref) ==
    slice(sortByDistance(SelectSeq(photos, HasLocation), ref), 0, 10)
        \o SelectSeq(photos, HasNoLocation)

\* Variant that narrows the damage photos too
SelectedDamage_Narrowed(photos, ref) ==
    IF ref # NoLocation THEN ClosestPhotos(photos, ref) ELSE photos

SelectedDamage(photos, ref) == photos

Selected(photos, ref) ==
    IF ref # NoLocation THEN ClosestPhotos(photos, ref) ELSE photos

\* processedSets.push({...}) for one entry of the Map
ProcessedSet(entry) ==
    LET ref == referenceLocationOf(entry.damage)
    IN [damageId |-> entry.damageId,
        damagePhotos |-> SelectedDamage(entry.damage, ref),
        preconditionPhotos |-> Selected(entry.precondition, ref),
        completionPhotos |-> Selected(entry.completion, ref),
        referenceLocation |-> ref]

\* processedSets.sort((a, b) => a.damageId.localeCompare(b.damageId))
RECURSIVE InsertByDamageId(_, _)
InsertByDamageId(sorted, set) ==
    IF sorted = <<>> THEN <<set>>
    ELSE IF localeCompare(Head(sorted).damageId, set.damageId) <= 0
         THEN <<Head(sorted)>> \o InsertByDamageId(Tail(sorted), set)
         ELSE <<set>> \o sorted

\* Variant that returns the sets in the order the folders were met
sortByDamageId_Unsorted(sets) == sets

RECURSIVE sortByDamageId(_)
sortByDamageId(sets) ==
    IF sets = <<>> THEN <<>>
    ELSE InsertByDamageId(sortByDamageId(DropLast(sets)), sets[Len(sets)])

\* The second loop of processFolderStructure and its return
ProcessedSets(sets) == sortByDamageId([i \in 1..Len(sets) |-> ProcessedSet(sets[i])])

\* ------------------------------------------------ the damage details file
\* value.toLowerCase().replace(/[\s_-]/g, '')
RECURSIVE RemoveSeparators(_)
RemoveSeparators(s) ==
    IF Len(s) = 0 THEN ""
    ELSE (IF CharAt(s, 1) \in {" ", "_", "-"} THEN "" ELSE CharAt(s, 1))
           \o RemoveSeparators(DropFirst(s))

normalizeHeader(value) == RemoveSeparators(toLowerCase(value))

\* headers.forEach((h) => normalized.set(normalizeHeader(h), h)) : of the
\* headers with one normalized form the Map keeps the last
normalizedGet(headers, key) ==
    LET hits == {i \in 1..Len(headers) : normalizeHeader(headers[i]) = key}
    IN IF hits = {} THEN Undefined
       ELSE headers[CHOOSE i \in hits : \A j \in hits : j <= i]

\* for (const candidate of candidates) { ...; if (key) return key; }
RECURSIVE findHeader(_, _)
findHeader(headers, candidates) ==
    IF candidates = <<>> THEN Undefined
    ELSE IF Truthy(normalizedGet(headers, normalizeHeader(Head(candidates))))
         THEN normalizedGet(headers, normalizeHeader(Head(candidates)))
         ELSE findHeader(headers, Tail(candidates))

Fields ==
    {"damageId", "damageType", "treatment", "dimensions", "costAUD",
     "length", "width", "height"}

Candidates ==
    [damageId |-> <<"damageid", "damage_id", "reportid", "report_id", "folderpath",
                    "folder">>,
     damageType |-> <<"damagetype", "damage_type">>,
     treatment |-> <<"treatment", "repair", "action">>,
     dimensions |-> <<"dimensions", "dimension", "size">>,
     costAUD |-> <<"costaud", "cost", "estimate", "price", "amount">>,
     length |-> <<"length", "len">>,
     width |-> <<"width", "wid">>,
     height |-> <<"height", "depth">>]

suggestColumnMapping(headers) == [f \in Fields |-> findHeader(headers, Candidates[f])]

\* An explicit mapping is a function on the fields it specifies; no mapping
\* at all is the function on no field.
NoMapping == <<>>

\* { ...defaults, ...mapping }
mergedMapping(defaults, explicit) ==
    [f \in Fields |-> IF f \in DOMAIN explicit THEN explicit[f] ELSE defaults[f]]

\* row[key] of a row of sheet_to_json(sheet, { defval: '' })
RowValue(headers, row, key) ==
    IF \E i \in 1..Len(headers) : headers[i] = key
    THEN row[CHOOSE i \in 1..Len(headers) : headers[i] = key]
    ELSE Undefined

getCellValue(headers, row, key) ==
    IF ~Truthy(key) THEN Undefined
    ELSE IF RowValue(headers, row, key) = Undefined THEN Undefined
    ELSE IF Len(trim(RowValue(headers, row, key))) > 0
         THEN trim(RowValue(headers, row, key))
         ELSE Undefined

\* String(value).replace(/[^\d.-]/g, '')
RECURSIVE KeepNumeric(_)
KeepNumeric(s) ==
    IF Len(s) = 0 THEN ""
    ELSE (IF includes("0123456789.-", CharAt(s, 1)) THEN CharAt(s, 1) ELSE "")
           \o KeepNumeric(DropFirst(s))

RECURSIVE DigitsPrefix(_)
DigitsPrefix(s) ==
    IF Len(s) > 0 /\ includes("0123456789", CharAt(s, 1))
    THEN CharAt(s, 1) \o DigitsPrefix(DropFirst(s))
    ELSE ""

\* parseFloat(cleaned): the longest prefix that is a decimal literal, written
\* as that literal; "NaN" when there is none
parseFloat(s) ==
    LET sign == IF startsWith(s, "-") THEN "-" ELSE ""
        rest == SubSeq(s, Len(sign) + 1, Len(s))
        whole == DigitsPrefix(rest)
        after == SubSeq(rest, Len(whole) + 1, Len(rest))
        fraction == IF startsWith(after, ".") THEN DigitsPrefix(DropFirst(after)) ELSE ""
    IN IF Len(whole) = 0 /\ Len(fraction) = 0 THEN "NaN"
       ELSE sign \o whole \o (IF Len(fraction) > 0 THEN "." \o fraction ELSE "")

toNumber(value) ==
    IF value = Undefined THEN Undefined
    ELSE IF parseFloat(KeepNumeric(value)) = "NaN" THEN Undefined
    ELSE parseFloat(KeepNumeric(value))

\* [length, width, height].filter(Boolean).join(' x ')
RECURSIVE join(_, _)
join(parts, separator) ==
    IF parts = <<>> THEN ""
    ELSE IF Len(parts) = 1 THEN parts[1]
    ELSE parts[1] \o separator \o join(Tail(parts), separator)

JoinedDimensions(length, width, height) ==
    IF ~Truthy(length) /\ ~Truthy(width) /\ ~Truthy(height) THEN Undefined
    ELSE join(SelectSeq(<<length, width, height>>, Truthy), " x ")

buildDimensions(headers, row) ==
    JoinedDimensions(getCellValue(headers, row, findHeader(headers, Candidates.length)),
                     getCellValue(headers, row, findHeader(headers, Candidates.width)),
                     getCellValue(headers, row, findHeader(headers, Candidates.height)))

dimensionsOf(headers, row, keys) ==
    IF Truthy(getCellValue(headers, row, keys.dimensions))
    THEN getCellValue(headers, row, keys.dimensions)
    ELSE IF Truthy(keys.length) \/ Truthy(keys.width) \/ Truthy(keys.height)
         THEN JoinedDimensions(getCellValue(headers, row, keys.length),
                               getCellValue(headers, row, keys.width),
                               getCellValue(headers, row, keys.height))
         ELSE buildDimensions(headers, row)

DetailsOfRow(headers, row, keys) ==
    [damageType |-> getCellValue(headers, row, keys.damageType),
     treatment |-> getCellValue(headers, row, keys.treatment),
     dimensions |-> dimensionsOf(headers, row, keys),
     costAUD |-> toNumber(getCellValue(headers, row, keys.costAUD))]

\* detailsById is a plain object: a function on its own keys.  A read of a
\* key it does not own falls through to Object.prototype, and an assignment
\* to __proto__ adds no own key.
ObjectPrototypeNames ==
    {"constructor", "toString", "valueOf", "hasOwnProperty", "isPrototypeOf",
     "propertyIsEnumerable", "toLocaleString", "__proto__"}
NoDetails == [absent |-> TRUE]
InheritedProperty(name) == [inherited |-> name]
EmptyObject == <<>>

\* Variant whose read sees own keys only
PropertyOf_OwnOnly(object, key) ==
    IF key \in DOMAIN object THEN object[key] ELSE NoDetails

\* object[key]
PropertyOf(object, key) ==
    IF key \in DOMAIN object THEN object[key]
    ELSE IF key \in ObjectPrototypeNames THEN InheritedProperty(key)
    ELSE NoDetails

\* object[key] = value
WithProperty(object, key, value) ==
    IF key = "__proto__" THEN object
    ELSE [k \in DOMAIN object \cup {key} |-> IF k = key THEN value ELSE object[k]]

\* Variant that keeps a row whose report-id cell is blank
RowDamageId_Untrimmed(headers, row, damageIdKey) == RowValue(headers, row, damageIdKey)

RowDamageId(headers, row, damageIdKey) == getCellValue(headers, row, damageIdKey)

\* rows.forEach((row) => { ... detailsById[damageId] = {...} }), rows[1..n]
RECURSIVE DetailsOfRows(_, _, _, _)
DetailsOfRows(headers, rows, keys, n) ==
    IF n = 0 THEN EmptyObject
    ELSE LET before == DetailsOfRows(headers, rows, keys, n - 1)
             damageId == RowDamageId(headers, rows[n], keys.damageId)
         IN IF ~Truthy(damageId) THEN before
            ELSE WithProperty(before, damageId, DetailsOfRow(headers, rows[n], keys))

\* The details file as found among the files: none, one that cannot be
\* read (arrayBuffer or XLSX.read throws), a workbook without a sheet, or a
\* sheet with its header row and data rows.
DetailsFileOf(kind, headers, rows) ==
    [kind |-> kind, name |-> "details.csv", headers |-> headers, rows |-> rows]

ParseResult(detailsById, sourceFileName, error) ==
    [detailsById |-> detailsById, sourceFileName |-> sourceFileName, error |-> error]

\* Variant that reports no error for a missing report-id column
MissingColumnResult_Silent(file) == ParseResult(EmptyObject, file.name, Undefined)

MissingColumnResult(file) ==
    ParseResult(EmptyObject, file.name, "Missing required column: damageId.")

\* parseDamageDetailsFile(files, mapping), for a file that can be read
parseDamageDetailsFile(file, explicit) ==
    IF file.kind = "none" THEN ParseResult(EmptyObject, Undefined, Undefined)
    ELSE IF file.kind = "noWorksheet"
         THEN ParseResult(EmptyObject, file.name, "No worksheet found in details file.")
    ELSE IF Len(file.rows) = 0
         THEN ParseResult(EmptyObject, file.name, "Details file contains no rows.")
    ELSE LET keys == mergedMapping(suggestColumnMapping(file.headers), explicit)
         IN IF ~Truthy(keys.damageId) THEN MissingColumnResult(file)
            ELSE ParseResult(DetailsOfRows(file.headers, file.rows, keys, Len(file.rows)),
                             file.name, Undefined)

\* ------------------------------------------------- handleFilesSelected
\* photoSets.map((photoSet) => ({ ...photoSet, damageDetails: detailsById[id] }))
WithDetails(set, detailsById) ==
    [damageId |-> set.damageId,
     damagePhotos |-> set.damagePhotos,
     preconditionPhotos |-> set.preconditionPhotos,
     completionPhotos |-> set.completionPhotos,
     referenceLocation |-> set.referenceLocation,
     damageDetails |-> PropertyOf(detailsById, set.damageId)]

photoSetsWithDetails(sets, detailsById) ==
    [i \in 1..Len(sets) |-> WithDetails(sets[i], detailsById)]

IdsOf(sets) == {sets[i].damageId : i \in 1..Len(sets)}

\* setDetailsSummary({...}); the two lists are kept as the sets of their ids
SummaryOf(sets, result) ==
    IF ~Truthy(result.sourceFileName) THEN NoSummary
    ELSE LET missing == {id \in IdsOf(sets) : PropertyOf(result.detailsById, id) = NoDetails}
         IN [sourceFileName |-> result.sourceFileName,
             matchedCount |-> Len(sets) - Cardinality(missing),
             missingInCsv |-> missing,
             unmatchedInCsv |-> DOMAIN result.detailsById \ IdsOf(sets)]

Toast(level, message) == [level |-> level, message |-> message]

\* The finally block
Finally ==
    /\ isProcessing' = FALSE
    /\ ipc' = "done"

\* setIsProcessing(true) and the progress display
StartIngestion ==
    /\ ipc = "idle"
    /\ ipc' = "parsing"
    /\ isProcessing' = TRUE
    /\ UNCHANGED <<files, detailsFile, mapping, detailsResult, buckets, photoSets,
                   detailsSummary, toasts, resumeCandidate>>
    /\ UNCHANGED <<storeVars, sessionVars, uploaderVars>>

\* const detailsResult = await parseDamageDetailsFile(files, mapping) and the
\* toast for its error; a file that cannot be read throws into the catch block
ParseDetails ==
    /\ ipc = "parsing"
    /\ IF detailsFile.kind = "unreadable"
       THEN /\ toasts' = Append(toasts, Toast("error",
                  "Failed to process uploaded files. Please check the folder structure."))
            /\ Finally
            /\ UNCHANGED detailsResult
       ELSE LET result == parseDamageDetailsFile(detailsFile, mapping) IN
            /\ detailsResult' = result
            /\ toasts' = IF Truthy(result.error)
                         THEN Append(toasts, Toast("error",
                                  "Damage details file error: " \o result.error))
                         ELSE IF Truthy(result.sourceFileName)
                         THEN Append(toasts, Toast("success",
                                  "Loaded damage details from " \o result.sourceFileName))
                         ELSE toasts
            /\ ipc' = "processing"
            /\ UNCHANGED isProcessing
    /\ UNCHANGED <<files, detailsFile, mapping, buckets, photoSets, detailsSummary,
                   resumeCandidate>>
    /\ UNCHANGED <<storeVars, sessionVars, uploaderVars>>

\* const photoSets = await processFolderStructure(files): its first loop,
\* which classifies the files one by one
ClassifyFolders ==
    /\ ipc = "processing"
    /\ buckets' = ClassifyFiles(files, Len(files))
    /\ ipc' = "selecting"
    /\ UNCHANGED <<files, detailsFile, mapping, isProcessing, detailsResult, photoSets,
                   detailsSummary, toasts, resumeCandidate>>
    /\ UNCHANGED <<storeVars, sessionVars, uploaderVars>>

\* The rest of processFolderStructure (the proximity selection and the sort),
\* the merge with the details, the summary and setState(newState)
MergeDetails ==
    LET sets == ProcessedSets(buckets) IN
    /\ ipc = "selecting"
    /\ detailsSummary' = SummaryOf(sets, detailsResult)
    /\ IF Len(sets) = 0
       THEN /\ toasts' = Append(toasts, Toast("error",
                  "No valid damage reports found in the uploaded folder structure."))
            /\ Finally
            /\ UNCHANGED <<photoSets, approvals>>
       ELSE /\ photoSets' = photoSetsWithDetails(sets, detailsResult.detailsById)
            /\ approvals' = EmptyObject
            /\ toasts' = Append(toasts, Toast("success", "Successfully processed"))
            /\ ipc' = "loading"
            /\ UNCHANGED isProcessing
    /\ UNCHANGED <<files, detailsFile, mapping, detailsResult, buckets, resumeCandidate>>
    /\ UNCHANGED <<storeVars, metricsById, outbox, uploaderVars>>

\* records.forEach(...): the saved approvals (or metrics) of the reports of
\* this folder, keyed by damageId; records[1..n]
RECURSIVE SavedOf(_, _, _, _)
SavedOf(records, ids, field, n) ==
    IF n = 0 THEN EmptyObject
    ELSE LET before == SavedOf(records, ids, field, n - 1)
         IN IF records[n].damageId \notin ids \/ ~Truthy(records[n][field]) THEN before
            ELSE WithProperty(before, records[n].damageId, records[n][field])

CandidateOf(records, ids) ==
    LET savedApprovals == SavedOf(records, ids, "approval", Len(records))
        savedMetrics == SavedOf(records, ids, "metrics", Len(records))
    IN [approvals |-> savedApprovals, metricsById |-> savedMetrics,
        overlapCount |-> Cardinality(DOMAIN savedApprovals)
                            + Cardinality(DOMAIN savedMetrics)]

\* const records = await listAssessments() and the resume prompt; a failed
\* request is only logged.  Then the finally block.  damageIdSet is built
\* from the photo sets this call has produced, not from the viewer's state.
LoadSaved(b, ok) ==
    /\ ipc = "loading"
    /\ resumeCandidate' =
          IF ok /\ CandidateOf(listAssessments(table[b]), IdsOf(ProcessedSets(buckets))).overlapCount > 0
          THEN CandidateOf(listAssessments(table[b]), IdsOf(ProcessedSets(buckets)))
          ELSE resumeCandidate
    /\ resumePromptOpen' =
          IF ok /\ CandidateOf(listAssessments(table[b]), IdsOf(ProcessedSets(buckets))).overlapCount > 0
          THEN TRUE
          ELSE resumePromptOpen
    /\ Finally
    /\ UNCHANGED <<files, detailsFile, mapping, detailsResult, buckets, photoSets,
                   detailsSummary, toasts>>
    /\ UNCHANGED <<storeVars, sessionVars, pendingFiles, isPreflighting>>

\* ------------------------------------------------ the uploader's preflight
\* detectPhotoTypeFolder of the uploader: { folder, index } of the first
\* folder with a keyword, else of the folder holding the file, else null
\* (written here as index -1 with a null folder)
RECURSIVE DetectFrom(_, _)
DetectFrom(pathParts, i) ==
    IF i >= Len(pathParts) - 1
    THEN IF Len(pathParts) >= 2
         THEN [folder |-> trim(toLowerCase(pathParts[Len(pathParts) - 1])),
               index |-> Len(pathParts) - 2]
         ELSE [folder |-> Null, index |-> -1]
    ELSE LET folder == trim(toLowerCase(pathParts[i + 1]))
         IN IF \/ includes(folder, "precondition") \/ includes(folder, "pre-condition")
               \/ includes(folder, "pre_condition") \/ includes(folder, "before")
               \/ includes(folder, "damage") \/ includes(folder, "completion")
               \/ includes(folder, "after") \/ startsWith(folder, "01-")
               \/ startsWith(folder, "02-") \/ startsWith(folder, "03-")
            THEN [folder |-> folder, index |-> i]
            ELSE DetectFrom(pathParts, i + 1)

detectPhotoTypeFolder(pathParts) == DetectFrom(pathParts, 0)

classifyPhotoType(folder) ==
    IF ~Truthy(folder) THEN "damage"
    ELSE IF includes(folder, "damage") \/ startsWith(folder, "02-")
            \/ includes(folder, "02-damage") THEN "damage"
    ELSE IF \/ includes(folder, "precondition") \/ includes(folder, "pre-condition")
            \/ includes(folder, "pre_condition") \/ includes(folder, "before")
            \/ startsWith(folder, "01-") \/ includes(folder, "01-precondition")
         THEN "precondition"
    ELSE IF \/ includes(folder, "completion") \/ includes(folder, "after")
            \/ startsWith(folder, "03-") \/ includes(folder, "03-completion")
         THEN "completion"
    ELSE "damage"

\* const damageId = photoTypeFolder && photoTypeFolder.index > 0 ? ... : ...
preflightDamageId(pathParts) ==
    LET found == detectPhotoTypeFolder(pathParts)
    IN IF found.index > 0 THEN pathParts[found.index]
       ELSE IF Len(pathParts) >= 2 THEN pathParts[2]
       ELSE pathParts[1]

\* reportMap.has / set / get and entry[type] = true, in insertion order
MarkType(reportMap, damageId, type) ==
    LET known == \E i \in 1..Len(reportMap) : reportMap[i].damageId = damageId
        all == IF known THEN reportMap
               ELSE Append(reportMap, [damageId |-> damageId, damage |-> FALSE,
                                       precondition |-> FALSE, completion |-> FALSE])
    IN [i \in 1..Len(all) |->
          IF all[i].damageId = damageId THEN [all[i] EXCEPT ![type] = TRUE] ELSE all[i]]

\* The first loop of analyzeStructure, over files[1..n]: every image file is
\* counted, whatever the length of its path
RECURSIVE analyzeStructure(_, _)
analyzeStructure(fileList, n) ==
    IF n = 0 THEN <<>>
    ELSE LET reportMap == analyzeStructure(fileList, n - 1)
             file == fileList[n]
         IN IF ~startsWith(file.type, "image/") THEN reportMap
            ELSE MarkType(reportMap, preflightDamageId(file.webkitRelativePath),
                          classifyPhotoType(
                              detectPhotoTypeFolder(file.webkitRelativePath).folder))

\* ----------------------------------------------------- the folders selected
ImageFile(path, exif) ==
    [webkitRelativePath |-> path, type |-> "image/jpeg", name |-> path[Len(path)],
     exif |-> exif]
OtherFile(path) ==
    [webkitRelativePath |-> path, type |-> "text/plain", name |-> path[Len(path)],
     exif |-> NoLocation]

SeqsUpTo(S, n) == UNION {[1..k -> S] : k \in 0..n}

\* Folder layouts: the usual one, other spellings, a folder without a
\* keyword, photos next to the root, a root that carries a keyword, a deeper
\* tree, a report folder named like a property of Object.prototype.
MaxFiles == 2
LayoutFiles ==
    {ImageFile(<<"root", "R1", "damage", "a.jpg">>, <<2, 1>>),
     ImageFile(<<"root", "R1", " Before", "a.jpg">>, <<0, 1>>),
     ImageFile(<<"root", "R2", "03-done", "a.jpg">>, NoLocation),
     ImageFile(<<"root", "R1", "misc", "a.jpg">>, NoLocation),
     ImageFile(<<"root", "R1", "01-damage", "a.jpg">>, NoLocation),
     ImageFile(<<"root", "a.jpg">>, NoLocation),
     ImageFile(<<"Damage Reports", "R2", "after", "a.jpg">>, NoLocation),
     ImageFile(<<"root", "2024", "r1", "Pre-Condition", "a.jpg">>, <<3, 1>>),
     ImageFile(<<"root", "constructor", "damage", "a.jpg">>, NoLocation),
     OtherFile(<<"root", "R1", "damage", "notes.txt">>)}

SimpleSheet ==
    DetailsFileOf("sheet", <<"Damage ID", "Type">>, << <<"R1", "crack">>, <<"R9", "dent">> >>)

LayoutInputs ==
    [files : SeqsUpTo(LayoutFiles, MaxFiles),
     detailsFile : {NoFile, SimpleSheet},
     mapping : {NoMapping}]

\* Photo runs: the photos of one report, one by one or, for the photos
\* around the damage that carry a position, in runs of RunLength photos taken
\* at one place.
MaxRuns == 3
RunLength == 10
SinglePhotos ==
    {ImageFile(<<"root", "R1", "damage", "a.jpg">>, exif) :
        exif \in {NoLocation, <<2, 1>>, <<3, 1>>}}
      \cup {ImageFile(<<"root", "R1", "before", "a.jpg">>, exif) :
               exif \in {NoLocation, <<1, 1>>, <<4, 1>>}}
      \cup {ImageFile(<<"root", "R1", "after", "a.jpg">>, exif) :
               exif \in {NoLocation, <<4, 1>>}}
LongRunPhotos ==
    {ImageFile(<<"root", "R1", "before", "a.jpg">>, <<1, 1>>),
     ImageFile(<<"root", "R1", "before", "a.jpg">>, <<4, 1>>),
     ImageFile(<<"root", "R1", "after", "a.jpg">>, <<4, 1>>)}
Runs == (SinglePhotos \X {1}) \cup (LongRunPhotos \X {RunLength})

RECURSIVE Repeat(_, _)
Repeat(file, n) == IF n = 0 THEN <<>> ELSE <<file>> \o Repeat(file, n - 1)

RECURSIVE Expand(_)
Expand(runs) ==
    IF runs = <<>> THEN <<>>
    ELSE Repeat(Head(runs)[1], Head(runs)[2]) \o Expand(Tail(runs))

RunInputs ==
    [files : {Expand(runs) : runs \in SeqsUpTo(Runs, MaxRuns)},
     detailsFile : {NoFile},
     mapping : {NoMapping}]

\* Details files: unreadable, without a worksheet, or a sheet of two columns
\* with up to MaxRows data rows.
MaxRows == 2
SheetFiles ==
    <<ImageFile(<<"root", "R1", "damage", "a.jpg">>, NoLocation),
      ImageFile(<<"root", "R2", "before", "a.jpg">>, NoLocation)>>
HeaderRows ==
    {<<"Damage ID", "Type">>, <<"damage_id", "Damage-ID">>, <<"Ref", "Damage Type">>}
DataRows == {"R1", " R2 ", "", " ", "R9"} \X {"crack", "R1"}
Mappings == {NoMapping, [damageId |-> "Ref"], [damageId |-> Undefined]}

SheetInputs ==
    [files : {SheetFiles},
     detailsFile : {DetailsFileOf("unreadable", <<>>, <<>>),
                    DetailsFileOf("noWorksheet", <<>>, <<>>)}
                   \cup {DetailsFileOf("sheet", headers, rows) :
                           headers \in HeaderRows, rows \in SeqsUpTo(DataRows, MaxRows)},
     mapping : Mappings]

IngestInit ==
    /\ StoreInit
    /\ ViewerInit
    /\ NoAssessments
    /\ \E input \in LayoutInputs \cup RunInputs \cup SheetInputs :
          /\ files = input.files
          /\ detailsFile = input.detailsFile
          /\ mapping = input.mapping

NextIngest ==
    \/ StartIngestion
    \/ ParseDetails
    \/ ClassifyFolders
    \/ MergeDetails
    \/ \E b \in Backends, ok \in BOOLEAN : LoadSaved(b, ok)

SpecIngest == IngestInit /\ [][NextIngest]_vars

\* ============================================== the assessment session
\* A PhotoSetApproval is written "status:severity": its status and the
\* assessment fields the ApprovalControls hold (severity stands for severity,
\* priority, confidence, estimate, follow-up, cost range and notes, which go
\* through the same persistApproval call).  Comments and the timestamp are
\* left out.
Decisions == {"approved", "query", "rejected"}
Statuses == Decisions \cup {"pending"}
NotSet == ""
Severities == {"minor"}
ApprovalOf(status, severity) == status \o ":" \o severity
statusOf(approval) == CHOOSE st \in Statuses : startsWith(approval, st \o ":")
severityOf(approval) == SubSeq(approval, Len(statusOf(approval)) + 2, Len(approval))

\* The reports of the folder on screen.
Reports == IdsOf(photoSets)

\* approval={state.approvals[currentSet.damageId]} and
\* metrics={metricsById[currentSet.damageId]}
approvalProp(damageId) ==
    IF damageId \in DOMAIN approvals THEN approvals[damageId] ELSE Undefined
metricsProp(damageId) ==
    IF damageId \in DOMAIN metricsById THEN metricsById[damageId] ELSE Undefined

\* The severity state of the controls, kept equal to approval?.severity by
\* the effect on [approval]
severityState(damageId) ==
    IF approvalProp(damageId) = Undefined THEN NotSet
    ELSE severityOf(approvalProp(damageId))

\* { ...prev, [key]: value }
Spread(object, key, value) ==
    [k \in DOMAIN object \cup {key} |-> IF k = key THEN value ELSE object[k]]

\* The AssessmentUpsert payload of the viewer: it carries no id
Payload(damageId, approval, metrics) ==
    [id |-> Undefined, damageId |-> damageId, approval |-> approval, metrics |-> metrics]

\* upsertAssessment(payload) of the client: PUT /assessments/:id with
\* id = payload.id || payload.damageId, not awaited
Put(payload) ==
    [path |-> IF Truthy(payload.id) THEN payload.id ELSE payload.damageId,
     payload |-> payload,
     state |-> "sent"]

statusText(status) ==
    IF status = "approved" THEN "Approved"
    ELSE IF status = "rejected" THEN "Rejected"
    ELSE "Queried"

\* handleApprovalChange(damageId, approval)
handleApprovalChange(damageId, approval) ==
    /\ approvals' = Spread(approvals, damageId, approval)
    /\ toasts' = IF approvalProp(damageId) = Undefined
                    \/ statusOf(approvalProp(damageId)) # statusOf(approval)
                 THEN Append(toasts, Toast("success",
                          "Assessment updated: " \o statusText(statusOf(approval))
                             \o " for " \o damageId))
                 ELSE toasts
    /\ outbox' = Append(outbox, Put(Payload(damageId, approval, metricsProp(damageId))))
    /\ UNCHANGED metricsById

\* handleMetricsChange(damageId, metrics)
handleMetricsChange(damageId, metrics) ==
    /\ metricsById' = Spread(metricsById, damageId, metrics)
    /\ outbox' = Append(outbox, Put(Payload(damageId, approvalProp(damageId), metrics)))
    /\ UNCHANGED <<approvals, toasts>>

\* The assessor's mutations of one session.
MaxEdits == 3

viewVars == <<files, detailsFile, mapping, ipc, isProcessing, detailsResult, buckets,
              photoSets, detailsSummary, resumeCandidate, uploaderVars>>

\* The Approve, Query and Reject buttons
handleStatusChange(damageId, status) ==
    /\ Len(outbox) < MaxEdits
    /\ handleApprovalChange(damageId, ApprovalOf(status, severityState(damageId)))
    /\ UNCHANGED <<storeVars, viewVars>>

\* onChange of an assessment field: setSeverity(value); persistApproval({ severity: value })
persistApproval(damageId, severity) ==
    /\ Len(outbox) < MaxEdits
    /\ handleApprovalChange(damageId,
          ApprovalOf(IF approvalProp(damageId) = Undefined THEN "pending"
                     ELSE statusOf(approvalProp(damageId)),
                     severity))
    /\ UNCHANGED <<storeVars, viewVars>>

\* The Save button of the comments box
handleCommentsSubmit(damageId) ==
    /\ Len(outbox) < MaxEdits
    /\ IF approvalProp(damageId) # Undefined
       THEN handleApprovalChange(damageId, approvalProp(damageId))
       ELSE UNCHANGED <<sessionVars, toasts>>
    /\ UNCHANGED <<storeVars, viewVars>>

\* onChange of the distance and cost inputs
emitMetrics(damageId, metrics) ==
    /\ Len(outbox) < MaxEdits
    /\ handleMetricsChange(damageId, metrics)
    /\ UNCHANGED <<storeVars, viewVars>>

\* The server (the development server, on SQLite) handles a PUT request of
\* the viewer and answers 200.
ServePut(k) ==
    LET record == WithId(outbox[k].payload, outbox[k].path)
        t == clock + 1
        done == upsertAssessment(table["sqlite"], record, t)
    IN /\ outbox[k].state = "sent"
       /\ ~MissingDamageId(outbox[k].payload)
       /\ schema' = [schema EXCEPT !["sqlite"] = TRUE]
       /\ clock' = t
       /\ table' = [table EXCEPT !["sqlite"] = done.rows]
       /\ firstCommit' = NoteFirstCommit(firstCommit, "sqlite", table["sqlite"], done.bound)
       /\ lastCommit' = NoteCommit(lastCommit, "sqlite", record, t)
       /\ outbox' = [outbox EXCEPT ![k].state = "stored"]
       /\ UNCHANGED <<pc, request, upsertArg, now, existing, response, objects>>
       /\ UNCHANGED <<viewVars, toasts, approvals, metricsById>>

\* Variant whose catch takes the update of the failed request back
CatchFailure_RollsBack(object, damageId) ==
    [k \in DOMAIN object \ {damageId} |-> object[k]]

\* .catch((error) => { console.warn('Failed to persist assessment:', error) })
CatchFailure(object, damageId) == object

\* The request fails (no network, or a response that is not ok): fetchJson
\* throws and the catch logs a warning.
FailPut(k) ==
    /\ outbox[k].state = "sent"
    /\ outbox' = [outbox EXCEPT ![k].state = "failed"]
    /\ approvals' = CatchFailure(approvals, outbox[k].payload.damageId)
    /\ UNCHANGED <<storeVars, viewVars, toasts, metricsById>>

\* What an earlier session on the same folder left on the server: nothing,
\* or a record of report R1 with an approval and metrics.
SavedRecord == Payload("R1", ApprovalOf("approved", "minor"), "m")
SavedTables ==
    {{}, upsertAssessment({}, WithId(SavedRecord, Put(SavedRecord).path), 1).rows}

\* The viewer after the folder of SheetFiles has been processed and the
\* resume prompt, if any, has been answered with Skip.
SessionInit ==
    /\ \E saved \in SavedTables :
          /\ table = [b \in Backends |-> IF b = "sqlite" THEN saved ELSE {}]
          /\ schema = [b \in Backends |-> b = "sqlite" /\ saved # {}]
          /\ clock = IF saved = {} THEN 0 ELSE 1
    /\ pc = [r \in Reqs |-> "idle"]
    /\ request = [r \in Reqs |-> NoRequest]
    /\ upsertArg = [r \in Reqs |-> NoBody]
    /\ now = [r \in Reqs |-> 0]
    /\ existing = [r \in Reqs |-> {}]
    /\ response = [r \in Reqs |-> [b \in Backends |-> NoResponse]]
    /\ firstCommit = [b \in Backends |-> [id \in Ids |-> {}]]
    /\ lastCommit = [b \in Backends |-> [id \in Ids |-> {}]]
    /\ objects = [b \in Backends |-> {}]
    /\ files = SheetFiles
    /\ detailsFile = NoFile
    /\ mapping = NoMapping
    /\ ipc = "done"
    /\ isProcessing = FALSE
    /\ detailsResult = parseDamageDetailsFile(NoFile, NoMapping)
    /\ buckets = ClassifyFiles(SheetFiles, Len(SheetFiles))
    /\ photoSets = photoSetsWithDetails(ProcessedSets(buckets), EmptyObject)
    /\ detailsSummary = NoSummary
    /\ toasts = <<Toast("success", "Successfully processed")>>
    /\ resumeCandidate = NoCandidate
    /\ pendingFiles = NoSelection
    /\ isPreflighting = FALSE
    /\ resumePromptOpen = FALSE
    /\ NoAssessments

NextSession ==
    \/ \E damageId \in Reports, status \in Decisions : handleStatusChange(damageId, status)
    \/ \E damageId \in Reports, severity \in Severities \cup {NotSet} :
          persistApproval(damageId, severity)
    \/ \E damageId \in Reports : handleCommentsSubmit(damageId)
    \/ \E damageId \in Reports, metrics \in MetricsValues : emitMetrics(damageId, metrics)
    \/ \E k \in 1..Len(outbox) : ServePut(k)
    \/ \E k \in 1..Len(outbox) : FailPut(k)

SpecSession == SessionInit /\ [][NextSession]_vars

\* ===================================== the uploader and the resume prompt
\* {state.photoSets.length === 0 ? <ReportUploader/> : <> header, galleries,
\* resume dialog </>}
UploaderShown == photoSets = <<>>
DialogShown == photoSets # <<>> /\ resumePromptOpen

\* The folders the user can select or drop: the reports of R1, those of R2,
\* and a folder whose only photo lies next to the root.
FolderOf(path) ==
    [files |-> <<ImageFile(path, NoLocation)>>, detailsFile |-> NoFile,
     mapping |-> NoMapping]
Selections ==
    {FolderOf(<<"root", "R1", "damage", "a.jpg">>),
     FolderOf(<<"root", "R2", "damage", "a.jpg">>),
     FolderOf(<<"root", "a.jpg">>)}

\* Ingestions of one visit
MaxIngestions == 2
ProcessingToast == Toast("success", "Processing files")
Ingestions == Cardinality({n \in 1..Len(toasts) : toasts[n] = ProcessingToast})

\* summarizeFiles(files); setPendingFiles(files), and the effect on
\* pendingFiles that starts the preflight: setIsPreflighting(true)
setPendingFiles(selection) ==
    /\ pendingFiles' = selection
    /\ isPreflighting' = TRUE
    /\ UNCHANGED <<storeVars, ingestVars, sessionVars, resumePromptOpen>>

\* The Select Folder button (disabled={isProcessing}) and the file input
handleFileChange(selection) ==
    /\ UploaderShown
    /\ ~isProcessing
    /\ setPendingFiles(selection)

\* A folder dropped on the card
onDrop(selection) ==
    /\ UploaderShown
    /\ setPendingFiles(selection)

\* The preflight of the pending files ends: setIsPreflighting(false)
PreflightDone ==
    /\ UploaderShown
    /\ pendingFiles # NoSelection
    /\ isPreflighting
    /\ isPreflighting' = FALSE
    /\ UNCHANGED <<storeVars, ingestVars, sessionVars, pendingFiles, resumePromptOpen>>

\* Variant of the button that is disabled during the preflight only
ProcessFilesDisabled_PreflightOnly(processing, preflighting) == preflighting

\* disabled={isProcessing || isPreflighting}
ProcessFilesDisabled(processing, preflighting) == processing \/ preflighting

\* The Process Files button: onFilesSelected(pendingFiles, mapping);
\* setPendingFiles(null); toast.success(...), and handleFilesSelected up to
\* its first await: setIsProcessing(true)
ProcessFiles ==
    /\ UploaderShown
    /\ pendingFiles # NoSelection
    /\ ~ProcessFilesDisabled(isProcessing, isPreflighting)
    /\ Ingestions < MaxIngestions
    /\ files' = pendingFiles.files
    /\ detailsFile' = pendingFiles.detailsFile
    /\ mapping' = pendingFiles.mapping
    /\ ipc' = "parsing"
    /\ isProcessing' = TRUE
    /\ pendingFiles' = NoSelection
    /\ toasts' = Append(toasts, ProcessingToast)
    /\ UNCHANGED <<detailsResult, buckets, photoSets, detailsSummary, resumeCandidate>>
    /\ UNCHANGED <<storeVars, sessionVars, isPreflighting, resumePromptOpen>>

\* Back to Upload: the viewer's state is emptied and the uploader is mounted
\* anew; isProcessing, resumeCandidate and resumePromptOpen stay.  The open
\* dialog is modal: nothing behind it can be clicked.
handleReset ==
    /\ photoSets # <<>>
    /\ ~DialogShown
    /\ photoSets' = <<>>
    /\ approvals' = EmptyObject
    /\ metricsById' = EmptyObject
    /\ detailsSummary' = NoSummary
    /\ pendingFiles' = NoSelection
    /\ isPreflighting' = FALSE
    /\ UNCHANGED <<files, detailsFile, mapping, ipc, isProcessing, detailsResult, buckets,
                   toasts, resumeCandidate, resumePromptOpen, outbox, storeVars>>

\* { ...prev, ...next }
SpreadOver(prev, next) ==
    [k \in DOMAIN prev \cup DOMAIN next |-> IF k \in DOMAIN next THEN next[k] ELSE prev[k]]

AppliedToast == Toast("success", "Previous session data applied.")

\* The Apply button of the resume dialog
handleResumeApply ==
    /\ DialogShown
    /\ IF resumeCandidate = NoCandidate
       THEN UNCHANGED <<approvals, metricsById, resumePromptOpen, resumeCandidate, toasts>>
       ELSE /\ approvals' = SpreadOver(approvals, resumeCandidate.approvals)
            /\ metricsById' = SpreadOver(metricsById, resumeCandidate.metricsById)
            /\ resumePromptOpen' = FALSE
            /\ resumeCandidate' = NoCandidate
            /\ toasts' = Append(toasts, AppliedToast)
    /\ UNCHANGED <<files, detailsFile, mapping, ipc, isProcessing, detailsResult, buckets,
                   photoSets, detailsSummary, outbox, pendingFiles, isPreflighting,
                   storeVars>>

\* The Skip button of the resume dialog
handleResumeSkip ==
    /\ DialogShown
    /\ resumePromptOpen' = FALSE
    /\ resumeCandidate' = NoCandidate
    /\ UNCHANGED <<files, detailsFile, mapping, ipc, isProcessing, detailsResult, buckets,
                   photoSets, detailsSummary, toasts, pendingFiles, isPreflighting,
                   storeVars, sessionVars>>

\* onOpenChange={setResumePromptOpen}: the dialog is closed with Escape, its
\* close button or a click outside
DialogDismissed ==
    /\ DialogShown
    /\ resumePromptOpen' = FALSE
    /\ UNCHANGED <<storeVars, ingestVars, sessionVars, pendingFiles, isPreflighting>>

\* A visit: the server holds what an earlier session left, nothing is selected.
UploadInit ==
    /\ \E saved \in SavedTables :
          /\ table = [b \in Backends |-> IF b = "sqlite" THEN saved ELSE {}]
          /\ schema = [b \in Backends |-> b = "sqlite" /\ saved # {}]
          /\ clock = IF saved = {} THEN 0 ELSE 1
    /\ pc = [r \in Reqs |-> "idle"]
    /\ request = [r \in Reqs |-> NoRequest]
    /\ upsertArg = [r \in Reqs |-> NoBody]
    /\ now = [r \in Reqs |-> 0]
    /\ existing = [r \in Reqs |-> {}]
    /\ response = [r \in Reqs |-> [b \in Backends |-> NoResponse]]
    /\ firstCommit = [b \in Backends |-> [id \in Ids |-> {}]]
    /\ lastCommit = [b \in Backends |-> [id \in Ids |-> {}]]
    /\ objects = [b \in Backends |-> {}]
    /\ NothingSelected
    /\ ViewerInit
    /\ NoAssessments

NextUpload ==
    \/ \E selection \in Selections : handleFileChange(selection)
    \/ \E selection \in Selections : onDrop(selection)
    \/ PreflightDone
    \/ ProcessFiles
    \/ ParseDetails
    \/ ClassifyFolders
    \/ MergeDetails
    \/ \E ok \in BOOLEAN : LoadSaved("sqlite", ok)
    \/ handleReset
    \/ handleResumeApply
    \/ handleResumeSkip
    \/ DialogDismissed
    \/ \E damageId \in Reports, status \in Decisions :
          ~DialogShown /\ handleStatusChange(damageId, status)
    \/ \E damageId \in Reports, metrics \in MetricsValues :
          ~DialogShown /\ emitMetrics(damageId, metrics)

SpecUpload == UploadInit /\ [][NextUpload]_vars

\* ================================================================== claims
RowsOf(b, id) == {row \in table[b] : row.id = id}

\* A request slot that holds an upsert whose D1 statement has just run.
D1Committed(r) == pc[r] = "done" /\ upsertArg[r] # NoBody

\* C1: in both backends the created_at of a stored row is the created_at
\* written by the upsert that inserted the row, whatever upserts followed, and
\* its updated_at is the clock reading of the upsert that wrote it last.
C1_CreatedAtImmutable ==
    \A b \in Backends : \A row \in table[b] :
        /\ firstCommit[b][row.id] = {row.created_at}
        /\ \A c \in lastCommit[b][row.id] : row.updated_at = c.now

\* C1 witness: in both backends a row was inserted and then written again by
\* an upsert with a later clock reading.
C1_Witness ==
    \A b \in Backends : \E row \in table[b] :
        /\ row.updated_at > row.created_at
        /\ firstCommit[b][row.id] = {row.created_at}

\* C2: after the INSERT statements of two upserts for one id have run, in any
\* interleaving of their steps, the row holds the damageId, approval, metrics
\* and updatedAt of the upsert whose statement ran last, there is one row for
\* the id, and its createdAt is the one set by the statement that inserted it.
C2_LastCommitWins ==
    \A b \in Backends : \A id \in Ids : \A c \in lastCommit[b][id] :
        /\ Cardinality(RowsOf(b, id)) = 1
        /\ \A row \in RowsOf(b, id) :
              /\ toRecord(row).damageId = c.damageId
              /\ toRecord(row).approval = c.approval
              /\ toRecord(row).metrics = c.metrics
              /\ toRecord(row).updatedAt = c.now
              /\ firstCommit[b][id] = {toRecord(row).createdAt}

\* C2 witness: a D1 upsert that read no row for its id has run its INSERT
\* after another upsert for the same id inserted the row with another clock
\* reading and other field values: the two overlapped, and this one ran last.
C2_Witness ==
    \E r \in Reqs :
        /\ D1Committed(r)
        /\ existing[r] = {}
        /\ \E row \in RowsOf("d1", ResolveId(upsertArg[r])) :
              /\ row.created_at # now[r]
              /\ row.updated_at = now[r]
              /\ toRecord(row).approval = upsertArg[r].approval

\* C3: upsert is one indivisible storage step: while one upsert has read the
\* row of an id and not yet written, no other upsert for the same id writes.
C3_UpsertIndivisible ==
    [][\A r1, r2 \in Reqs :
          (/\ r1 # r2
           /\ pc[r1] = "insert"
           /\ pc[r2] = "insert" /\ pc'[r2] = "done")
          => ResolveId(upsertArg[r1]) # ResolveId(upsertArg[r2])]_vars

\* The steps of a request slot, as seen across one transition.
SqliteUpsertStep(r) == pc[r] = "idle" /\ pc'[r] = "select"
D1InsertStep(r) == pc[r] = "insert" /\ pc'[r] = "done"
AnswerStep(r) == pc[r] = "idle" /\ pc'[r] = "done"

\* C4: the record an upsert returns is the row stored for its id right after
\* its write: id, damageId, approval, metrics, createdAt and updatedAt.
C4_ReturnsStoredRecord ==
    [][\A r \in Reqs :
          /\ SqliteUpsertStep(r) =>
                \E row \in table'.sqlite :
                    response'[r].sqlite.records = <<toRecord(row)>>
          /\ D1InsertStep(r) =>
                \E row \in table'.d1 :
                    response'[r].d1.records = <<toRecord(row)>>]_vars

\* C5: the stored damage_id, approval_json and metrics_json of an id are
\* those of the upsert that wrote last, a field absent from that upsert is
\* NULL in the row, and GET /api/assessments/:id answers with its values.
C5_WholeRecordReplace ==
    \A b \in Backends : \A id \in Ids : \A c \in lastCommit[b][id] :
        /\ \A row \in RowsOf(b, id) :
              /\ row.damage_id = c.damageId
              /\ row.approval_json =
                   (IF c.approval = Undefined THEN Null ELSE JSONstringify(c.approval))
              /\ row.metrics_json =
                   (IF c.metrics = Undefined THEN Null ELSE JSONstringify(c.metrics))
        /\ (/\ pc[0] = "done"
            /\ request[0].method = "GET" /\ request[0].route = "/assessments/:id"
            /\ request[0].param = id)
           => /\ response[0][b].status = 200
              /\ Len(response[0][b].records) = 1
              /\ response[0][b].records[1].id = id
              /\ response[0][b].records[1].damageId = c.damageId
              /\ response[0][b].records[1].approval = c.approval
              /\ response[0][b].records[1].metrics = c.metrics

\* C5 witness: GET of an id that was inserted and later written again, by an
\* upsert carrying metrics and no approval, answers with no approval.
C5_Witness ==
    /\ pc[0] = "done"
    /\ request[0].method = "GET" /\ request[0].route = "/assessments/:id"
    /\ \A b \in Backends :
          /\ \E row \in RowsOf(b, request[0].param) : row.updated_at > row.created_at
          /\ response[0][b].status = 200
          /\ response[0][b].records[1].approval = Undefined
          /\ response[0][b].records[1].metrics \in MetricsValues

\* C6: an INSERT statement that finds no row for its id leaves exactly one
\* row for the id, whose created_at and updated_at both are the clock
\* reading of that upsert.
C6_FirstUpsertCreates ==
    [][\A r \in Reqs :
          /\ (SqliteUpsertStep(r) /\ RowsOf("sqlite", ResolveId(upsertArg'[r])) = {}) =>
                /\ Cardinality({row \in table'.sqlite : row.id = ResolveId(upsertArg'[r])}) = 1
                /\ \A row \in table'.sqlite :
                      row.id = ResolveId(upsertArg'[r]) =>
                          row.created_at = now'[r] /\ row.updated_at = now'[r]
          /\ (D1InsertStep(r) /\ RowsOf("d1", ResolveId(upsertArg[r])) = {}) =>
                /\ Cardinality({row \in table'.d1 : row.id = ResolveId(upsertArg[r])}) = 1
                /\ \A row \in table'.d1 :
                      row.id = ResolveId(upsertArg[r]) =>
                          row.created_at = now[r] /\ row.updated_at = now[r]]_vars

\* C6 witness: a D1 upsert has just inserted the row of its id, next to the
\* row of another id, and the SQLite store holds a row inserted the same way.
C6_Witness ==
    \E r \in Reqs :
        /\ D1Committed(r)
        /\ firstCommit.d1[ResolveId(upsertArg[r])] = {now[r]}
        /\ \A row \in RowsOf("d1", ResolveId(upsertArg[r])) :
              row.created_at = now[r] /\ row.updated_at = now[r]
        /\ Cardinality(table.d1) = 2
        /\ \E row \in table.sqlite : row.created_at = row.updated_at

\* C7: driven by the same requests with the same clock readings, the SQLite
\* and the D1 backend return the same record from every upsert, answer alike
\* every list and get made while no upsert is in flight and, once no request
\* is in flight, hold the same rows.
C7_BackendsAgree ==
    /\ \A r \in 1..MaxReqs : pc[r] = "done" => response[r].sqlite = response[r].d1
    /\ (pc[0] = "done" /\ \A r \in 1..MaxReqs : pc[r] \in {"idle", "closed"})
          => response[0].sqlite = response[0].d1
    /\ (\A r \in Reqs : pc[r] \in {"idle", "closed"}) => table.sqlite = table.d1

\* The id the router and the store are to file a request under.
ExpectedId(q) ==
    IF q.method = "PUT" THEN q.param
    ELSE IF q.body.id # Undefined THEN q.body.id
    ELSE q.body.damageId

\* `rows` holds under `id` a row with the fields of `body` written at t.
StoredUnder(rows, id, body, t) ==
    \E row \in rows :
        /\ row.id = id
        /\ row.damage_id = body.damageId
        /\ toRecord(row).approval = body.approval
        /\ toRecord(row).metrics = body.metrics
        /\ row.updated_at = t

\* The step leaves the rows of every other id of backend b as they are.
OthersKept(b, id) ==
    {row \in table'[b] : row.id # id} = {row \in table[b] : row.id # id}

\* C8: an upsert is stored under the path parameter for PUT
\* /api/assessments/:id whatever id the body carries, else under the explicit
\* id of the body when it has one, else under the body's damageId.
C8_StoredUnderId ==
    [][\A r \in Reqs :
          /\ SqliteUpsertStep(r) =>
                /\ StoredUnder(table'.sqlite, ExpectedId(request'[r]), request'[r].body,
                               now'[r])
                /\ OthersKept("sqlite", ExpectedId(request'[r]))
                /\ response'[r].sqlite.records[1].id = ExpectedId(request'[r])
                /\ ResolveId(upsertArg'[r]) = ExpectedId(request'[r])
          /\ D1InsertStep(r) =>
                /\ StoredUnder(table'.d1, ResolveId(upsertArg[r]), upsertArg[r], now[r])
                /\ OthersKept("d1", ResolveId(upsertArg[r]))
                /\ response'[r].d1.records[1].id = ResolveId(upsertArg[r])]_vars

\* C8 witness: PUT /api/assessments/R1 with a body whose id is R2 has been
\* stored by both backends, and the only id either table holds is R1.
C8_Witness ==
    \E r \in Reqs :
        /\ D1Committed(r)
        /\ request[r].method = "PUT"
        /\ upsertArg[r].id = "R1"
        /\ response[r].sqlite.records[1].id = "R1"
        /\ \A b \in Backends : {row.id : row \in table[b]} = {"R1"}

\* C9: GET /api/assessments/:id for an id no upsert has written is answered
\* 404 "Not found" by the backend, and the request changes no table.
C9_GetMissing ==
    [][(/\ AnswerStep(0)
        /\ request'[0].method = "GET" /\ request'[0].route = "/assessments/:id")
       => /\ table' = table
          /\ \A b \in Backends :
                firstCommit[b][request'[0].param] = {} =>
                    response'[0][b] = jsonError("Not found", 404)]_vars

\* C9 witness: GET of an id never written is answered 404 by both backends
\* while both tables hold the row of another id.
C9_Witness ==
    /\ pc[0] = "done"
    /\ request[0].method = "GET" /\ request[0].route = "/assessments/:id"
    /\ \A b \in Backends :
          /\ firstCommit[b][request[0].param] = {}
          /\ table[b] # {}
          /\ response[0][b].status = 404

\* C10: POST /api/assessments and PUT /api/assessments/:id with a body that
\* has no damageId are answered 400 and change no table.
C10_MissingDamageIdRejected ==
    [][\A r \in Reqs :
          (/\ pc[r] = "idle" /\ pc'[r] # "idle"
           /\ request'[r].method \in {"POST", "PUT"}
           /\ request'[r].route = (IF request'[r].method = "POST" THEN "/assessments"
                                   ELSE "/assessments/:id")
           /\ request'[r].body.damageId = Undefined)
          => /\ pc'[r] = "done"
             /\ \A b \in Backends : response'[r][b].status = 400
             /\ table' = table
             /\ upsertArg' = upsertArg]_vars

\* C10 witness: a PUT whose body carries an approval and no damageId has been
\* answered 400 while the tables hold a row.
C10_Witness ==
    \E r \in Reqs :
        /\ pc[r] = "done"
        /\ request[r].method = "PUT"
        /\ request[r].body.damageId = Undefined
        /\ request[r].body.approval \in Approvals
        /\ \A b \in Backends : response[r][b].status = 400 /\ table[b] # {}

\* A step in which GET /api/assessments is answered.
ListStep ==
    /\ AnswerStep(0)
    /\ request'[0].method = "GET" /\ request'[0].route = "/assessments"

\* The sequence recs holds the record of every row of rows exactly once, one
\* per id, by non-increasing updatedAt.
ListsAll(recs, rows) ==
    /\ Len(recs) = Cardinality(rows)
    /\ {recs[i] : i \in 1..Len(recs)} = {toRecord(row) : row \in rows}
    /\ \A i, j \in 1..Len(recs) : i # j => recs[i].id # recs[j].id
    /\ \A i, j \in 1..Len(recs) : i < j => recs[i].updatedAt >= recs[j].updatedAt

\* C11: after any sequence of upserts, the list answered by either backend
\* holds every stored record exactly once, one per id, ordered by updatedAt
\* descending.
C11_ListAllByUpdatedAtDesc ==
    [][ListStep =>
          /\ response'[0].sqlite.status = 200
          /\ response'[0].d1.status = 200
          /\ ListsAll(response'[0].sqlite.records, table.sqlite)
          /\ ListsAll(response'[0].d1.records, table.d1)]_vars

\* A list of two records with different update times has been answered.
C11_Witness ==
    /\ pc[0] = "done" /\ request[0].route = "/assessments"
    /\ request[0].method = "GET"
    /\ \E b \in Backends :
          /\ Len(response[0][b].records) = 2
          /\ response[0][b].records[1].updatedAt > response[0][b].records[2].updatedAt

\* C12: every request the router has handled ended in a response that
\* carries an HTTP status; no rejection left handleRequest for the caller
\* (the node server of dev-server.ts, the Workers runtime of index.ts).
C12_AlwaysResponds ==
    \A r \in Reqs, b \in Backends :
        pc[r] = "done" => /\ response[r][b].status # 0
                          /\ response[r][b] # Thrown(response[r][b].error)

\* ------------------------------------------------------ claims on ingestion
BucketNames == {"damage", "precondition", "completion"}

\* The places (report, bucket, position) at which file n stands in the Map.
PlacesOf(sets, n) ==
    {place \in (1..Len(sets)) \X BucketNames \X (1..Len(files)) :
        /\ place[3] <= Len(sets[place[1]][place[2]])
        /\ sets[place[1]][place[2]][place[3]].file = n}

IsImage(file) == startsWith(file.type, "image/")

\* C13: once the files are classified, every image file whose relative path
\* has at least 2 segments stands in exactly one bucket of exactly one
\* report (none is dropped, none stands twice).
C13_EveryImageInOneBucket ==
    ipc = "selecting" =>
        \A n \in 1..Len(files) :
            (IsImage(files[n]) /\ Len(files[n].webkitRelativePath) >= 2)
                => Cardinality(PlacesOf(buckets, n)) = 1

\* The entry of the Map for a report id.
BucketsOf(damageId) ==
    buckets[CHOOSE i \in 1..Len(buckets) : buckets[i].damageId = damageId]

Located(photos) == SelectSeq(photos, HasLocation)
Kept(selected, photos) == IF Len(Located(photos)) < 10 THEN Len(Located(photos)) ELSE 10
FilesOf(photos) == {photos[k].file : k \in 1..Len(photos)}

\* selected is the selection of the bucket photos for the reference ref: the
\* photos with a position first, by non-decreasing distance, at most 10 of
\* them and none left out that is strictly closer than one kept; then every
\* photo without a position.
IsProximitySelection(selected, photos, ref) ==
    LET kept == Kept(selected, photos) IN
    /\ Len(selected) = kept + Len(SelectSeq(photos, HasNoLocation))
    /\ \A k \in 1..kept : HasLocation(selected[k])
    /\ \A k \in 1..kept : \E m \in 1..Len(photos) : photos[m] = selected[k]
    /\ \A k, m \in 1..kept : k # m => selected[k].file # selected[m].file
    /\ \A k, m \in 1..kept :
          k < m => DistanceTo(ref, selected[k]) <= DistanceTo(ref, selected[m])
    /\ SubSeq(selected, kept + 1, Len(selected)) = SelectSeq(photos, HasNoLocation)
    /\ \A m \in 1..Len(photos) :
          (HasLocation(photos[m]) /\ photos[m].file \notin FilesOf(selected))
             => \A k \in 1..kept :
                   DistanceTo(ref, photos[m]) >= DistanceTo(ref, selected[k])

\* C14: for a report with a reference location the precondition list, and
\* likewise the completion list, is the proximity selection of its bucket.
C14_ProximitySelection ==
    \A i \in 1..Len(photoSets) :
        photoSets[i].referenceLocation # NoLocation =>
            /\ IsProximitySelection(photoSets[i].preconditionPhotos,
                                    BucketsOf(photoSets[i].damageId).precondition,
                                    photoSets[i].referenceLocation)
            /\ IsProximitySelection(photoSets[i].completionPhotos,
                                    BucketsOf(photoSets[i].damageId).completion,
                                    photoSets[i].referenceLocation)

\* A report with a reference location whose precondition bucket holds more
\* than 10 photos with a position, the closest of them met last.
C14_Witness ==
    /\ Len(photoSets) = 1
    /\ photoSets[1].referenceLocation # NoLocation
    /\ Len(Located(BucketsOf(photoSets[1].damageId).precondition)) > 10
    /\ Len(photoSets[1].preconditionPhotos) = 10
    /\ \E m \in 1..Len(BucketsOf(photoSets[1].damageId).precondition) :
          LET left == BucketsOf(photoSets[1].damageId).precondition[m] IN
          /\ left.file \notin FilesOf(photoSets[1].preconditionPhotos)
          /\ left.file < photoSets[1].preconditionPhotos[1].file

\* C15: the damage photos of every report are its classified damage bucket,
\* same photos in the same order; and when no damage photo has a position the
\* precondition and completion lists are the buckets unchanged too.
C15_DamagePhotosUntouched ==
    \A i \in 1..Len(photoSets) :
        LET entry == BucketsOf(photoSets[i].damageId) IN
        /\ photoSets[i].damagePhotos = entry.damage
        /\ Located(entry.damage) = <<>> =>
              /\ photoSets[i].preconditionPhotos = entry.precondition
              /\ photoSets[i].completionPhotos = entry.completion

\* A report with a reference location whose damage bucket holds a photo
\* without a position before one with a position.
C15_Witness ==
    /\ Len(photoSets) = 1
    /\ photoSets[1].referenceLocation # NoLocation
    /\ \E k, m \in 1..Len(photoSets[1].damagePhotos) :
          /\ k < m
          /\ HasNoLocation(photoSets[1].damagePhotos[k])
          /\ HasLocation(photoSets[1].damagePhotos[m])

\* The details file is a sheet with data rows and has been parsed.
SheetParsed ==
    /\ ipc \in {"processing", "selecting", "loading"}
    /\ detailsFile.kind = "sheet"
    /\ Len(detailsFile.rows) > 0

\* The report-id column: the one of the explicit mapping when it names one,
\* else the inferred one.
InferredIdColumn == suggestColumnMapping(detailsFile.headers).damageId
ExplicitIdColumn ==
    IF "damageId" \in DOMAIN mapping THEN mapping.damageId ELSE Undefined
IdColumn ==
    IF "damageId" \in DOMAIN mapping THEN mapping.damageId ELSE InferredIdColumn

\* The rows whose report-id cell is not empty after trimming.
IdCell(n) == RowValue(detailsFile.headers, detailsFile.rows[n], IdColumn)
RowsWithId ==
    {n \in 1..Len(detailsFile.rows) : IdCell(n) # Undefined /\ Len(trim(IdCell(n))) > 0}

\* C16: when neither header inference nor the explicit mapping resolves the
\* report-id column, the parse returns no details and an error naming the
\* missing damageId column; with a resolved column, the details are those of
\* the rows whose report-id cell is not empty after trimming, and no other.
C16_MissingIdColumnOrCell ==
    SheetParsed =>
        /\ (~Truthy(InferredIdColumn) /\ ~Truthy(ExplicitIdColumn)) =>
              /\ detailsResult.detailsById = EmptyObject
              /\ Truthy(detailsResult.error)
              /\ includes(detailsResult.error, "Missing required column")
              /\ includes(detailsResult.error, "damageId")
        /\ Truthy(IdColumn) =>
              /\ ~Truthy(detailsResult.error)
              /\ DOMAIN detailsResult.detailsById = {trim(IdCell(n)) : n \in RowsWithId}

\* A sheet whose headers give no report-id column, parsed without a mapping
\* that names one.
C16_Witness ==
    /\ SheetParsed
    /\ ~Truthy(InferredIdColumn) /\ ~Truthy(ExplicitIdColumn)
    /\ Truthy(detailsResult.error)

\* The details file cannot be read, has no worksheet, or has no data row.
Malformed ==
    \/ detailsFile.kind \in {"unreadable", "noWorksheet"}
    \/ detailsFile.kind = "sheet" /\ Len(detailsFile.rows) = 0

\* The report ids of the image files that the classification places.
ClassifiedIds ==
    {damageIdOf(files[n].webkitRelativePath) : n \in {m \in 1..Len(files) : IsImage(files[m]) /\ ~Skipped(files[m])}}

TabularErrors ==
    {i \in 1..Len(toasts) :
        toasts[i].level = "error" /\ startsWith(toasts[i].message, "Damage details file error")}

\* C17: once an ingestion with an unreadable, sheetless or rowless details
\* file is over, the session holds one photo set per classified report, each
\* without damage details, and exactly one error tells of the details file.
C17_MalformedDetailsKeepPhotoSets ==
    (ipc = "done" /\ Malformed) =>
        /\ IdsOf(photoSets) = ClassifiedIds
        /\ \A i \in 1..Len(photoSets) : photoSets[i].damageDetails = NoDetails
        /\ Cardinality(TabularErrors) = 1

\* The photo sets have been merged with the details and put in the session.
Merged == ipc \in {"loading", "done"} /\ Len(photoSets) > 0

\* The detail record whose key equals the report id, or absent.
DetailOfReport(id) ==
    IF id \in DOMAIN detailsResult.detailsById THEN detailsResult.detailsById[id]
    ELSE NoDetails

\* C18: the merged photo sets are the classified reports, each once, in
\* ascending order of report id; the damageDetails of a set is the detail
\* record keyed by its report id, or absent when there is none; the detail
\* keys without a report add no photo set and make up unmatchedInCsv.
C18_MergeIsLeftJoin ==
    Merged =>
        /\ IdsOf(photoSets) = ClassifiedIds
        /\ \A i, j \in 1..Len(photoSets) :
              i < j => localeCompare(photoSets[i].damageId, photoSets[j].damageId) < 0
        /\ \A i \in 1..Len(photoSets) :
              photoSets[i].damageDetails = DetailOfReport(photoSets[i].damageId)
        /\ Truthy(detailsResult.sourceFileName) =>
              detailsSummary.unmatchedInCsv =
                 DOMAIN detailsResult.detailsById \ ClassifiedIds

\* ------------------------------------------------ claims on the session
\* The request a mutation has just issued.
Issued == outbox'[Len(outbox')]

\* C19: a step that changes the approvals or the metrics of the session
\* issues exactly one PUT request, which carries the changed entry; the
\* failure of a request leaves approvals and metrics as they are; and while a
\* request has failed, every further mutation can still be made and every
\* request still under way can still be stored.
C19_OptimisticUpdateAndPersist ==
    [][/\ (approvals' # approvals \/ metricsById' # metricsById) =>
             /\ Len(outbox') = Len(outbox) + 1
             /\ SubSeq(outbox', 1, Len(outbox)) = outbox
             /\ Issued.state = "sent"
             /\ approvals' # approvals =>
                   approvals'[Issued.payload.damageId] = Issued.payload.approval
             /\ metricsById' # metricsById =>
                   metricsById'[Issued.payload.damageId] = Issued.payload.metrics
       /\ (\E k \in 1..Len(outbox) : outbox[k].state # "failed" /\ outbox'[k].state = "failed") =>
             /\ approvals' = approvals
             /\ metricsById' = metricsById
       /\ ((\E k \in 1..Len(outbox) : outbox[k].state = "failed") /\ Len(outbox) < MaxEdits) =>
             \A damageId \in Reports :
                /\ ENABLED handleStatusChange(damageId, "approved")
                /\ ENABLED persistApproval(damageId, "minor")
                /\ ENABLED emitMetrics(damageId, "m")
       /\ \A k \in 1..Len(outbox) : outbox[k].state = "sent" => ENABLED ServePut(k)
      ]_vars

\* A request failed, its update is still in the session, and a later
\* mutation of the same report has been stored by the server.
C19_Witness ==
    \E k, m \in 1..Len(outbox) :
        /\ k < m
        /\ outbox[k].state = "failed"
        /\ outbox[m].state = "stored"
        /\ outbox[k].payload.damageId = outbox[m].payload.damageId
        /\ Truthy(outbox[k].payload.approval)
        /\ outbox[k].payload.damageId \in DOMAIN approvals
        /\ \E row \in table["sqlite"] : row.id = outbox[m].payload.damageId

\* The requests that carry a decision for the report.
DecisionsSent(damageId, n) ==
    {j \in 1..n :
        /\ outbox[j].payload.damageId = damageId
        /\ Truthy(outbox[j].payload.approval)
        /\ statusOf(outbox[j].payload.approval) \in Decisions}

\* C20: a pending approval stands in the session, or in a request, only for a
\* report for which an approve, query or reject decision was sent before.
C20_NoPendingBeforeDecision ==
    /\ \A damageId \in DOMAIN approvals :
          statusOf(approvals[damageId]) = "pending" =>
             DecisionsSent(damageId, Len(outbox)) # {}
    /\ \A k \in 1..Len(outbox) :
          (Truthy(outbox[k].payload.approval)
              /\ statusOf(outbox[k].payload.approval) = "pending") =>
             DecisionsSent(outbox[k].payload.damageId, k - 1) # {}

\* ------------------------------------------- claims on the folder layout
\* The folders of a path, from the front, without the file name, and those of
\* them whose lowercased trimmed text carries a keyword.
FoldersOf(pathParts) == 1..(Len(pathParts) - 1)
KeywordFolders(pathParts) ==
    {i \in FoldersOf(pathParts) : IsStageKeyword(trim(toLowerCase(pathParts[i])))}

\* The stage folder: the first folder with a keyword, else the second-to-last
\* segment.
StageFolderAt(pathParts) ==
    IF KeywordFolders(pathParts) # {}
    THEN CHOOSE i \in KeywordFolders(pathParts) : \A j \in KeywordFolders(pathParts) : i <= j
    ELSE Len(pathParts) - 1

\* The report id: the segment before the stage folder, or the second segment
\* when the stage folder is the first.
ReportSegment(pathParts) ==
    IF StageFolderAt(pathParts) > 1 THEN pathParts[StageFolderAt(pathParts) - 1]
    ELSE pathParts[2]

Placed == {n \in 1..Len(files) : PlacesOf(buckets, n) # {}}
PathOf(n) == files[n].webkitRelativePath

\* C21: once the files are classified, every placed image stands under the
\* report named by the segment before its stage folder (the second segment
\* when the stage folder comes first), the stage folder being the first
\* folder with a keyword or, without one, the second-to-last segment.
C21_StageFolderAndReportId ==
    ipc = "selecting" =>
        \A n \in Placed :
            /\ photoTypeIndex(PathOf(n)) + 1 = StageFolderAt(PathOf(n))
            /\ photoTypeFolder(PathOf(n)) = trim(toLowerCase(PathOf(n)[StageFolderAt(PathOf(n))]))
            /\ \A place \in PlacesOf(buckets, n) :
                  buckets[place[1]].damageId = ReportSegment(PathOf(n))

\* A photo of a deeper tree is placed under the folder before its stage
\* folder, which is not the second segment, next to a photo whose root folder
\* carries a keyword.
C21_Witness ==
    /\ ipc = "selecting"
    /\ \E n \in Placed :
          /\ StageFolderAt(PathOf(n)) > 3
          /\ ReportSegment(PathOf(n)) # PathOf(n)[2]
    /\ \E n \in Placed : StageFolderAt(PathOf(n)) = 1

\* The stage a stage-folder text stands for, in the order damage,
\* precondition, completion, and damage for a text that names none.
NamesDamage(label) == includes(label, "damage") \/ startsWith(label, "02-")
NamesPrecondition(label) ==
    \/ \E word \in {"precondition", "pre-condition", "pre_condition", "before"} :
          includes(label, word)
    \/ startsWith(label, "01-")
NamesCompletion(label) ==
    \/ \E word \in {"completion", "after"} : includes(label, word)
    \/ startsWith(label, "03-")
StageOfText(label) ==
    IF NamesDamage(label) THEN "damage"
    ELSE IF NamesPrecondition(label) THEN "precondition"
    ELSE IF NamesCompletion(label) THEN "completion"
    ELSE "damage"

StageTextOf(n) == trim(toLowerCase(PathOf(n)[StageFolderAt(PathOf(n))]))

\* C22: once the files are classified, every placed image stands in the
\* bucket its stage-folder text stands for, damage names being tested before
\* precondition names and these before completion names, and a text that
\* names no stage counting as damage.
C22_StagePriority ==
    ipc = "selecting" =>
        \A n \in Placed : \A place \in PlacesOf(buckets, n) :
            place[2] = StageOfText(StageTextOf(n))

\* A photo whose stage folder names both damage and precondition stands with
\* the damage photos, and so does a photo whose folder names no stage.
C22_Witness ==
    /\ ipc = "selecting"
    /\ \E n \in Placed :
          /\ NamesDamage(StageTextOf(n)) /\ NamesPrecondition(StageTextOf(n))
          /\ \E place \in PlacesOf(buckets, n) : place[2] = "damage"
    /\ \E n \in Placed :
          /\ ~NamesDamage(StageTextOf(n)) /\ ~NamesPrecondition(StageTextOf(n))
          /\ ~NamesCompletion(StageTextOf(n))
          /\ \E place \in PlacesOf(buckets, n) : place[2] = "damage"

\* ---------------------------------------------- claims on the column mapping
\* The first header of the file whose normalized form is that of a candidate
\* name of the field.
NormalizedCandidates(field) ==
    {normalizeHeader(Candidates[field][k]) : k \in 1..Len(Candidates[field])}
HeadersMatching(headers, field) ==
    {i \in 1..Len(headers) : normalizeHeader(headers[i]) \in NormalizedCandidates(field)}
FirstMatchingHeader(headers, field) ==
    IF HeadersMatching(headers, field) = {} THEN Undefined
    ELSE headers[CHOOSE i \in HeadersMatching(headers, field) :
                    \A j \in HeadersMatching(headers, field) : i <= j]

\* C23: for the headers of a parsed sheet, the column inferred for each field
\* is the first header whose normalized form equals a normalized candidate
\* name of the field.
C23_FirstMatchingHeaderWins ==
    SheetParsed =>
        \A field \in Fields :
            suggestColumnMapping(detailsFile.headers)[field]
               = FirstMatchingHeader(detailsFile.headers, field)

\* The column each field is parsed from: the explicit mapping's when it
\* names one, the inferred one otherwise.
SpecifiedIn(explicit, field) == field \in DOMAIN explicit /\ explicit[field] # Undefined
ColumnOf(field) ==
    IF SpecifiedIn(mapping, field) THEN mapping[field]
    ELSE suggestColumnMapping(detailsFile.headers)[field]

\* C24: a sheet is parsed with, for each field, the explicit mapping's column
\* when the mapping names one and the inferred column otherwise; with a
\* report-id column found this way the parse reports no error.
C24_ExplicitOverridesPerField ==
    SheetParsed =>
        /\ \A field \in Fields :
              mergedMapping(suggestColumnMapping(detailsFile.headers), mapping)[field]
                 = ColumnOf(field)
        /\ Truthy(ColumnOf("damageId")) => ~Truthy(detailsResult.error)

\* ------------------------------------------------ claims on the timestamps
\* C26: in both backends every stored row has an updated_at that is not
\* earlier than its created_at.
C26_UpdatedNotBeforeCreated ==
    \A b \in Backends : \A row \in table[b] : row.updated_at >= row.created_at

\* ------------------------------------- claims on the session and the server
ServerRows == table["sqlite"]

\* C27: no step takes an approval or metrics away from a stored record: a
\* row that holds an approval (metrics) still holds one after the step.
C27_StoredValuesNotRemoved ==
    [][\A old \in ServerRows : \A new \in ServerRows' :
          new.id = old.id =>
             /\ old.approval_json # Null => new.approval_json # Null
             /\ old.metrics_json # Null => new.metrics_json # Null
      ]_vars

\* The reports for which the session has issued a request.
Touched == {outbox[k].payload.damageId : k \in 1..Len(outbox)}
AllStored == \A k \in 1..Len(outbox) : outbox[k].state = "stored"

\* C28: once every request of the session has been stored, the server row
\* of each report the session touched holds the approval and the metrics of
\* the session's state for that report.
C28_ServerHoldsLatestState ==
    AllStored =>
        \A damageId \in Touched :
            \E row \in ServerRows :
                /\ row.id = damageId
                /\ row.approval_json = JsonColumn(approvalProp(damageId))
                /\ row.metrics_json = JsonColumn(metricsProp(damageId))


\* ---------------------------------------------- claims on the preflight
StageNames == {"damage", "precondition", "completion"}
PreflightReports == analyzeStructure(files, Len(files))
PreflightStages ==
    {<<PreflightReports[i].damageId, stage>> :
        i \in 1..Len(PreflightReports), stage \in StageNames}
      \cap {pair \in (IdsOf(PreflightReports) \X StageNames) :
              \E i \in 1..Len(PreflightReports) :
                 PreflightReports[i].damageId = pair[1] /\ PreflightReports[i][pair[2]]}
StagePhotos(set, stage) ==
    IF stage = "damage" THEN set.damagePhotos
    ELSE IF stage = "precondition" THEN set.preconditionPhotos
    ELSE set.completionPhotos
IngestedStages ==
    {pair \in (IdsOf(ProcessedSets(buckets)) \X StageNames) :
        \E i \in 1..Len(ProcessedSets(buckets)) :
           /\ ProcessedSets(buckets)[i].damageId = pair[1]
           /\ StagePhotos(ProcessedSets(buckets)[i], pair[2]) # <<>>}

\* C29: for the files of one selection, the preflight (analyzeStructure)
\* finds the same report ids, and for each report the same non-empty stages,
\* as the ingestion (processFolderStructure) does
C29_PreflightAgreesWithIngestion ==
    ipc = "selecting" =>
        /\ IdsOf(PreflightReports) = IdsOf(ProcessedSets(buckets))
        /\ PreflightStages = IngestedStages


\* ------------------------------- claims on the uploader and the resume prompt
SavedIds == DOMAIN resumeCandidate.approvals \cup DOMAIN resumeCandidate.metricsById
ApplyChosen == toasts' = Append(toasts, AppliedToast)
UserEdit == outbox' # outbox
NewFolderOrReset == photoSets' # photoSets
SessionValuesKept == approvals' = approvals /\ metricsById' = metricsById

\* C25: saved approvals and metrics replace the session's values only in the
\* step of Apply, which sets exactly the saved values; a step that is neither
\* Apply, nor an edit of the assessor, nor a new folder or a reset (so Skip,
\* dismissal, and the arrival of the saved records) leaves approvals and
\* metrics as they are; the prompt is shown only when a saved record it
\* offers belongs to a report of the current upload, and Apply applies only
\* records of reports of the current upload.
C25_SavedDataOnlyOnApply ==
    /\ [][/\ ~(ApplyChosen \/ UserEdit \/ NewFolderOrReset) => SessionValuesKept
          /\ ApplyChosen =>
                /\ approvals' = SpreadOver(approvals, resumeCandidate.approvals)
                /\ metricsById' = SpreadOver(metricsById, resumeCandidate.metricsById)
                /\ SavedIds \subseteq IdsOf(photoSets)
         ]_vars
    /\ [](DialogShown => SavedIds # {} /\ SavedIds \subseteq IdsOf(photoSets))

InProgress == ipc \in {"parsing", "processing", "selecting", "loading"}
onFilesSelectedInvoked == toasts' = Append(toasts, ProcessingToast)

\* C30: onFilesSelected is invoked only in a state in which no ingestion is
\* in progress (isProcessing is false and handleFilesSelected is not between
\* its start and its finally block)
C30_NoIngestionWhileOneRuns ==
    [][onFilesSelectedInvoked => ~isProcessing /\ ~InProgress]_vars

\* A folder is pending and its preflight is over while an ingestion runs: the
\* Process Files button is shown, and disabled.
C30_Witness ==
    /\ InProgress
    /\ UploaderShown
    /\ pendingFiles # NoSelection
    /\ ~isPreflighting
    /\ Ingestions >= 1

================================================================
